---- MODULE Spec2Model ----
(***************************************************************************)
(* A model of the UnifiedBetting core: the event matcher of                *)
(* backend/match_games.py and the odds / EV engine of                      *)
(* backend/utils/pod_utils.py.                                             *)
(*                                                                         *)
(* Team names are TLA+ strings over Alphabet; TLC gives Len, SubSeq and \o *)
(* on strings, so the string functions of the source are modelled          *)
(* character by character.  Alphabet has no parenthesis, hyphen or plus    *)
(* sign: the regular expressions of the normalizer that need one of them   *)
(* (pitcher annotations, parenthesised segments) leave every string of     *)
(* the model unchanged and are recorded as comments where they apply.      *)
(***************************************************************************)
EXTENDS Integers, Sequences, FiniteSets, TLC

(***************************************************************************)
(* Python's str, as far as the source uses it.                             *)
(***************************************************************************)
Alphabet == " .0123456789ABCDEFGHIJKLMNOPQRSTUVWXYZabcdefghijklmnopqrstuvwxyz"

Ch(s, i) == SubSeq(s, i, i)

Code(c) == CHOOSE i \in 1..Len(Alphabet) : Ch(Alphabet, i) = c

IsDigit(c) == c \in {"0", "1", "2", "3", "4", "5", "6", "7", "8", "9"}

IsSpace(c) == c = " "

\* \w of the re module: letters, digits and underscore
IsWord(c) == ~IsSpace(c) /\ c # "."

IsUpper(c) == Code(c) \in 13..38

LowerCh(c) == IF IsUpper(c) THEN Ch(Alphabet, Code(c) + 26) ELSE c

\* s.lower(); the string is halved so that the recursion stays shallow
RECURSIVE Lower(_)
Lower(s) ==
    IF Len(s) = 0 THEN ""
    ELSE IF Len(s) = 1 THEN LowerCh(s)
    ELSE Lower(SubSeq(s, 1, Len(s) \div 2)) \o Lower(SubSeq(s, Len(s) \div 2 + 1, Len(s)))

MinOf(S) == CHOOSE x \in S : \A y \in S : x <= y

MaxOf(S) == CHOOSE x \in S : \A y \in S : x >= y

LStrip(s) ==
    LET keep == {i \in 1..Len(s) : ~IsSpace(Ch(s, i))}
    IN  IF keep = {} THEN "" ELSE SubSeq(s, MinOf(keep), Len(s))

RStrip(s) ==
    LET keep == {i \in 1..Len(s) : ~IsSpace(Ch(s, i))}
    IN  IF keep = {} THEN "" ELSE SubSeq(s, 1, MaxOf(keep))

Strip(s) == LStrip(RStrip(s))

StartsWith(s, p) == Len(p) <= Len(s) /\ SubSeq(s, 1, Len(p)) = p

EndsWith(s, p) == Len(p) <= Len(s) /\ SubSeq(s, Len(s) - Len(p) + 1, Len(s)) = p

\* the positions at which x occurs in s
Occurrences(s, x) == {i \in 1..(Len(s) - Len(x) + 1) : SubSeq(s, i, i + Len(x) - 1) = x}

\* x in s
Contains(s, x) == Occurrences(s, x) # {}

\* any(x in s for x in xs)
ContainsAny(s, xs) == \E k \in 1..Len(xs) : Contains(s, xs[k])

\* s.replace(a, b): every non-overlapping occurrence, left to right
RECURSIVE Replace(_, _, _)
Replace(s, a, b) ==
    IF Occurrences(s, a) = {} THEN s
    ELSE LET i == MinOf(Occurrences(s, a))
         IN  SubSeq(s, 1, i - 1) \o b \o Replace(SubSeq(s, i + Len(a), Len(s)), a, b)

\* the first whitespace-free word of a string that starts with one
FirstWord(s) ==
    LET spaces == {i \in 1..Len(s) : IsSpace(Ch(s, i))}
    IN  IF spaces = {} THEN s ELSE SubSeq(s, 1, MinOf(spaces) - 1)

\* s.split(): the whitespace-separated words of s, in order
RECURSIVE Split(_)
Split(s) ==
    LET t == LStrip(s)
        w == FirstWord(t)
    IN  IF t = "" THEN <<>>
        ELSE <<w>> \o Split(SubSeq(t, Len(w) + 1, Len(t)))

\* " ".join(ws)
RECURSIVE Join(_)
Join(ws) ==
    IF ws = <<>> THEN ""
    ELSE IF Len(ws) = 1 THEN ws[1]
    ELSE ws[1] \o " " \o Join(Tail(ws))

\* a < b in Python's ordering of str: decided at the first differing character
StrLess(a, b) ==
    LET common == IF Len(a) < Len(b) THEN Len(a) ELSE Len(b)
        diff == {i \in 1..common : Ch(a, i) # Ch(b, i)}
    IN  IF diff = {} THEN Len(a) < Len(b)
        ELSE Code(Ch(a, MinOf(diff))) < Code(Ch(b, MinOf(diff)))

\* sorted(S) of a set of strings
RECURSIVE Sorted(_)
Sorted(S) ==
    IF S = {} THEN <<>>
    ELSE LET m == CHOOSE x \in S : \A y \in S \ {x} : StrLess(x, y)
         IN  <<m>> \o Sorted(S \ {m})

SeqToSet(q) == {q[i] : i \in 1..Len(q)}

(***************************************************************************)
(* Name normalizer: pod_utils.normalize_team_name_for_matching.            *)
(***************************************************************************)
\* re.sub(r'^\d+\s*', '', name): a leading run of digits and the whitespace after it
DropDigits(s) ==
    LET rest == {i \in 1..Len(s) : ~IsDigit(Ch(s, i))}
    IN  IF rest = {} THEN "" ELSE SubSeq(s, MinOf(rest), Len(s))

StripLeadingNumber(s) ==
    IF s # "" /\ IsDigit(Ch(s, 1)) THEN LStrip(DropDigits(s)) ELSE s

\* the alternatives of trophy_match that a string over Alphabet can contain;
\* '\(match\)' and '\(corners\)' need a parenthesis
trophy_phrases ==
    <<"to lift the trophy", "lift the trophy", "to win", "wins", "series price",
      "to win series">>

\* re.match(r'(.+?)\s*(?:...)', name, re.IGNORECASE): the lazy group ends at the
\* first position g >= 1 after which optional whitespace and a phrase follow
TrophyEnds(name) ==
    {g \in 1..Len(name) :
        \E k \in 1..Len(trophy_phrases) :
            StartsWith(Lower(LStrip(SubSeq(name, g + 1, Len(name)))), trophy_phrases[k])}

TrophyCut(name) ==
    IF TrophyEnds(name) = {} THEN name
    ELSE LET g == CHOOSE x \in TrophyEnds(name) : \A y \in TrophyEnds(name) : x <= y
         IN  Strip(SubSeq(name, 1, g))

league_country_suffixes ==
    <<"mlb", "nba", "nfl", "nhl", "ncaaf", "ncaab", "wnba",
      "poland", "bulgaria", "uruguay", "colombia", "peru", "argentina",
      "sweden", "romania", "finland", "england", "japan", "austria",
      "liga 1", "serie a", "bundesliga", "la liga", "ligue 1", "premier league",
      "epl", "mls", "tipico bundesliga">>

\* one turn of the suffix loop: re.search(r'(\s+suffix|suffix)$') and the re.sub
StripSuffix(norm_name, suffix) ==
    IF EndsWith(norm_name, suffix)
    THEN LET temp_name == Strip(SubSeq(norm_name, 1, Len(norm_name) - Len(suffix)))
         IN  IF temp_name # "" \/ Len(norm_name) = Len(suffix) THEN temp_name
             ELSE norm_name
    ELSE norm_name

\* 'for suffix in league_country_suffixes', from the k-th suffix on
RECURSIVE StripSuffixes(_, _)
StripSuffixes(norm_name, k) ==
    IF k > Len(league_country_suffixes) THEN norm_name
    ELSE IF EndsWith(norm_name, league_country_suffixes[k])
         THEN StripSuffixes(StripSuffix(norm_name, league_country_suffixes[k]), k + 1)
         ELSE StripSuffixes(norm_name, k + 1)

common_prefixes ==
    <<"if ", "fc ", "sc ", "bk ", "sk ", "ac ", "as ", "fk ", "cd ", "ca ", "afc ",
      "cfr ", "kc ", "scr ">>

\* one pass of 'for prefix in common_prefixes'
RECURSIVE StripPrefixes(_, _)
StripPrefixes(norm_name, k) ==
    IF k > Len(common_prefixes) THEN norm_name
    ELSE IF StartsWith(norm_name, common_prefixes[k])
         THEN StripPrefixes(
                  Strip(SubSeq(norm_name, Len(common_prefixes[k]) + 1, Len(norm_name))),
                  k + 1)
         ELSE StripPrefixes(norm_name, k + 1)

\* the if / elif chain of fixed rewrites; name is the name before lowercasing
FixedRewrites(name, norm_name) ==
    LET low == Lower(name)
    IN  IF Contains(low, "tottenham hotspur") THEN "tottenham"
        ELSE IF Contains(low, "paris saint germain") \/ Contains(low, "paris sg") THEN "psg"
        ELSE IF Contains(low, "new york") THEN Replace(norm_name, "new york", "ny")
        ELSE IF Contains(low, "los angeles") THEN Replace(norm_name, "los angeles", "la")
        ELSE IF Contains(low, "st louis") THEN Replace(norm_name, "st louis", "st. louis")
        ELSE IF Contains(low, "inter milan") \/ low = "internazionale" THEN "inter"
        ELSE IF Contains(low, "rheindorf altach") THEN "altach"
        ELSE IF Contains(low, "scr altach") THEN "altach"
        ELSE norm_name

\* re.sub(r'^[^\w]+|[^\w]+$', '', s)
StripNonWord(s) ==
    LET keep == {i \in 1..Len(s) : IsWord(Ch(s, i))}
    IN  IF keep = {} THEN "" ELSE SubSeq(s, MinOf(keep), MaxOf(keep))

normalize_team_name_for_matching(original) ==
    IF original = "" THEN ""
    ELSE LET name0 == Strip(StripLeadingNumber(original))
             \* pitcher_patterns need a hyphen: no string over Alphabet matches
             name == TrophyCut(name0)
             \* the two parenthesis re.sub need a parenthesis: unchanged
             norm1 == Strip(Lower(name))
             norm2 == StripSuffixes(norm1, 1)
             norm3 == StripPrefixes(StripPrefixes(norm2, 1), 1)
             norm4 == FixedRewrites(name, norm3)
             norm5 == StripNonWord(norm4)
             \* re.sub(r'[^\w\s\.\-\+]', '') removes no character of Alphabet
             final_normalized_name == Strip(Join(Split(norm5)))
         IN  IF final_normalized_name # "" THEN final_normalized_name
             ELSE Strip(Lower(original))

(***************************************************************************)
(* rapidfuzz.fuzz.token_set_ratio, imported at match_games.py:12.  Scores  *)
(* are exact rationals [num, den] (den > 0) where the library returns a    *)
(* float: num / den is the score on the 0..100 scale.                      *)
(***************************************************************************)
Rat(n, d) == [num |-> n, den |-> d]

RatLess(x, y) == x.num * y.den < y.num * x.den

RatLeq(x, y) == x.num * y.den <= y.num * x.den

RatEq(x, y) == x.num * y.den = y.num * x.den

RatMax(x, y) == IF RatLess(x, y) THEN y ELSE x

\* the next row of the longest-common-subsequence table: row[j] is the LCS of
\* a[1..i] and b[1..j], the largest over j' <= j of prev[j'] and of
\* prev[j'-1] + 1 where a[i] = b[j']
LcsRow(prev, c, b) ==
    [j \in 1..Len(b) |->
        MaxOf({prev[k] : k \in 1..j} \cup
              {(IF k = 1 THEN 0 ELSE prev[k - 1]) + 1 : k \in {k \in 1..j : Ch(b, k) = c}})]

RECURSIVE LcsRows(_, _, _, _)
LcsRows(prev, a, i, b) ==
    IF i > Len(a) THEN prev
    ELSE LET row == LcsRow(prev, Ch(a, i), b)
         IN  IF row = prev THEN LcsRows(prev, a, i + 1, b) ELSE LcsRows(row, a, i + 1, b)

Lcs(a, b) ==
    IF Len(a) = 0 \/ Len(b) = 0 THEN 0
    ELSE LcsRows([j \in 1..Len(b) |-> 0], a, 1, b)[Len(b)]

\* Indel.distance: insertions and deletions only
indel_distance(a, b) == Len(a) + Len(b) - 2 * Lcs(a, b)

\* _norm_distance(dist, lensum, 0): 100 - 100 * dist / lensum
norm_distance(dist, lensum) ==
    IF lensum = 0 THEN Rat(100, 1) ELSE Rat(100 * (lensum - dist), lensum)

token_set_ratio(s1, s2) ==
    LET tokens_a == SeqToSet(Split(s1))
        tokens_b == SeqToSet(Split(s2))
        intersect == tokens_b \cap tokens_a
        diff_ab == tokens_a \ tokens_b
        diff_ba == tokens_b \ tokens_a
        diff_ab_joined == Join(Sorted(diff_ab))
        diff_ba_joined == Join(Sorted(diff_ba))
        ab_len == Len(diff_ab_joined)
        ba_len == Len(diff_ba_joined)
        sect_len == Len(Join(Sorted(intersect)))
        sep == IF sect_len # 0 THEN 1 ELSE 0
        sect_ab_len == sect_len + sep + ab_len
        sect_ba_len == sect_len + sep + ba_len
        result == norm_distance(indel_distance(diff_ab_joined, diff_ba_joined),
                                sect_ab_len + sect_ba_len)
        sect_ab_ratio == norm_distance(sep + ab_len, sect_len + sect_ab_len)
        sect_ba_ratio == norm_distance(sep + ba_len, sect_len + sect_ba_len)
    IN  IF tokens_a = {} \/ tokens_b = {} THEN Rat(0, 1)
        ELSE IF intersect # {} /\ (diff_ab = {} \/ diff_ba = {}) THEN Rat(100, 1)
        ELSE IF sect_len = 0 THEN result
        ELSE RatMax(RatMax(result, sect_ab_ratio), sect_ba_ratio)

(***************************************************************************)
(* The event matcher: backend/match_games.py.                              *)
(***************************************************************************)
\* a missing dictionary key, or None
Absent == "<absent>"

FUZZY_MATCH_THRESHOLD == 65

MIN_COMPONENT_MATCH_SCORE == 60

ORIENTATION_CONFIDENCE_MARGIN == 10

\* 'if score >= 95': the early termination of the candidate loop
EarlyTerminationScore == 95

\* 'if time_diff > 86400': 24 hours in seconds
TimeWindowSeconds == 86400

PROP_INDICATORS ==
    <<"to lift the trophy", "lift the trophy", "mvp", "futures", "outright",
      "coach of the year", "player of the year", "series correct score",
      "when will series finish", "most points in series", "most assists in series",
      "most rebounds in series", "most threes made in series", "margin of victory",
      "exact outcome", "winner", "to win the tournament", "to win group", "series price",
      "(corners)", "bookings", "cards", "fouls", "hits+runs+errors", "corners",
      "bookings", "games", "sets", "1st half", "2nd half", "1st quarter", "2nd quarter",
      "3rd quarter", "4th quarter", "overtime", "extra time", "penalties", "total",
      "over", "under", "spread", "ml", "pk", "draw", "to win", "to advance", "handicap",
      "double chance", "clean sheet", "both teams to score", "anytime scorer",
      "first scorer", "last scorer", "win either half", "win both halves", "scorecast",
      "assist", "shots on target", "saves", "goalscorer", "player props", "team props",
      "props">>

is_prop_market_by_name(home_team_name, away_team_name) ==
    IF home_team_name = "" \/ away_team_name = "" THEN FALSE
    ELSE \/ ContainsAny(Lower(home_team_name), PROP_INDICATORS)
         \/ ContainsAny(Lower(away_team_name), PROP_INDICATORS)
         \/ (Contains(Lower(away_team_name), "field") /\ Contains(Lower(away_team_name), "the"))
         \/ (Lower(home_team_name) = "yes" /\ Lower(away_team_name) = "no")

english_premier_teams ==
    <<"manchester united", "manchester city", "arsenal", "chelsea", "liverpool",
      "tottenham", "newcastle", "brighton", "west ham", "crystal palace", "fulham",
      "brentford", "everton", "nottingham forest", "sheffield united", "burnley",
      "luton town", "bournemouth", "wolves", "wolverhampton">>

english_championship_teams ==
    <<"leeds united", "leicester city", "southampton", "norwich city", "west brom",
      "hull city", "middlesbrough", "coventry city", "sunderland", "birmingham city",
      "blackburn rovers", "bristol city", "cardiff city", "huddersfield town",
      "ipswich town", "millwall", "plymouth argyle", "preston north end",
      "queens park rangers", "rotherham united", "sheffield wednesday", "stoke city",
      "swansea city", "watford">>

english_league1_teams ==
    <<"barnsley", "blackpool", "bolton wanderers", "bristol rovers", "burton albion",
      "cambridge united", "carlisle united", "charlton athletic", "cheltenham town",
      "derby county", "exeter city", "fleetwood town", "grimsby town", "leyton orient",
      "lincoln city", "northampton town", "oxford united", "peterborough united",
      "port vale", "reading", "shrewsbury town", "stevenage", "wigan athletic",
      "wycombe wanderers">>

english_league2_teams ==
    <<"accrington stanley", "afc wimbledon", "barrow", "bradford city",
      "colchester united", "crewe alexandra", "crawley town", "doncaster rovers",
      "forest green rovers", "gillingham", "harrogate town", "mansfield town", "mk dons",
      "morecambe", "newport county", "notts county", "salford city", "stockport county",
      "sutton united", "swindon town", "tranmere rovers", "walsall">>

international_indicators ==
    <<"national team", "country", "international", "fifa", "uefa nations">>

english_divisions ==
    <<english_premier_teams, english_championship_teams, english_league1_teams,
      english_league2_teams>>

\* the divisions one of whose teams is named in home or away
EnglishDivisions(home, away) ==
    {d \in 1..Len(english_divisions) :
        \E k \in 1..Len(english_divisions[d]) :
            Contains(home, english_divisions[d][k]) \/ Contains(away, english_divisions[d][k])}

\* a cup versus league mismatch (cup_indicators) is only logged; it rejects nothing
is_league_compatible(betbck_game, pinnacle_event) ==
    LET betbck_home == Lower(betbck_game.betbck_site_home_team)
        betbck_away == Lower(betbck_game.betbck_site_away_team)
        pin_home == Lower(pinnacle_event.home_team)
        pin_away == Lower(pinnacle_event.away_team)
        betbck_english_teams == EnglishDivisions(betbck_home, betbck_away)
        pin_english_teams == EnglishDivisions(pin_home, pin_away)
        betbck_international ==
            ContainsAny(betbck_home, international_indicators)
            \/ ContainsAny(betbck_away, international_indicators)
        pin_international ==
            ContainsAny(pin_home, international_indicators)
            \/ ContainsAny(pin_away, international_indicators)
    IN  IF /\ betbck_english_teams # {} /\ pin_english_teams # {}
           /\ betbck_english_teams \cap pin_english_teams = {}
        THEN FALSE
        ELSE IF betbck_international # pin_international THEN FALSE
        ELSE TRUE

mlb_teams ==
    <<"blue jays", "dodgers", "mariners", "braves", "cubs", "angels", "padres", "rangers",
      "phillies", "yankees", "white sox", "giants", "marlins", "athletics", "guardians",
      "orioles", "red sox", "astros", "rockies", "cardinals", "twins", "brewers",
      "tigers", "royals", "rays", "nationals", "mets", "pirates", "diamondbacks", "twins",
      "royals", "tigers", "astros">>

soccer_teams ==
    <<"united", "city", "arsenal", "chelsea", "liverpool", "tottenham", "brighton",
      "wolves", "wanderers", "forest", "leeds", "villa", "palace", "fulham",
      "bournemouth", "lyon", "rennais", "laval", "boulogne", "galaxy", "sounders", "real",
      "barcelona", "madrid", "atletico", "sevilla", "valencia", "betis", "sociedad",
      "athletic", "bayern", "dortmund", "leipzig", "leverkusen", "frankfurt", "stuttgart",
      "juventus", "milan", "inter", "napoli", "roma", "lazio", "fiorentina", "psg",
      "monaco", "lyon", "marseille", "lille", "rennes", "nice">>

basketball_teams ==
    <<"lakers", "warriors", "celtics", "heat", "bulls", "knicks", "nets", "suns", "mavs",
      "bucks", "sixers", "raptors", "pistons", "pacers", "cavaliers", "magic", "hawks",
      "hornets", "wizards", "nuggets", "trail blazers", "jazz", "thunder", "spurs",
      "rockets", "pelicans", "grizzlies", "timberwolves", "kings", "clippers">>

football_teams ==
    <<"patriots", "bills", "dolphins", "jets", "ravens", "bengals", "browns", "steelers",
      "texans", "colts", "jaguars", "titans", "broncos", "chiefs", "raiders", "chargers",
      "cowboys", "giants", "eagles", "commanders", "bears", "lions", "packers", "vikings",
      "falcons", "panthers", "saints", "buccaneers", "cardinals", "rams", "seahawks",
      "49ers">>

ufc_first_names ==
    <<"amanda", "tatiana", "keith", "devin", "fernando", "anthony", "stephen">>

determine_sport_from_teams(home_team, away_team) ==
    LET teams_combined == Lower(home_team \o " " \o away_team)
    IN  IF ContainsAny(teams_combined, ufc_first_names) THEN "ufc_boxing"
        ELSE IF ContainsAny(teams_combined, mlb_teams) THEN "mlb"
        ELSE IF ContainsAny(teams_combined, soccer_teams) THEN "soccer"
        ELSE IF ContainsAny(teams_combined, basketball_teams) THEN "basketball"
        ELSE IF ContainsAny(teams_combined, football_teams) THEN "football"
        ELSE "other"

minor_indicators ==
    <<"durham bulls", "salt lake bees", "st. paul saints", "columbus clippers",
      "tacoma rainiers", "norfolk tides", "jumbo shrimp", "mud hens", "reno aces",
      "oklahoma city comets", "red wings", "syracuse mets", "indianapolis indians",
      "storm chasers", "railriders", "bees", "clippers", "mud hens", "aces", "comets",
      "wings", "mets", "indians", "storm chasers", "railriders">>

is_minor(event) ==
    \/ ContainsAny(Lower(event.home_team), minor_indicators)
    \/ ContainsAny(Lower(event.away_team), minor_indicators)

basketball_sports ==
    <<"basketball", "nba", "wnba", "ncaab", "ncaa basketball", "euroleague", "fib",
      "basketball">>

football_sports ==
    <<"football", "nfl", "ncaaf", "ncaa football", "college football", "american football">>

baseball_sports ==
    <<"baseball", "mlb", "minor league", "college baseball", "ncaa baseball">>

soccer_sports ==
    <<"soccer", "football", "mls", "premier league", "la liga", "bundesliga", "serie a",
      "ligue 1", "champions league", "europa league">>

hockey_sports ==
    <<"hockey", "nhl", "ncaa hockey", "college hockey">>

InLeagueOrSport(sports, league, sport) ==
    \E k \in 1..Len(sports) : Contains(league, sports[k]) \/ Contains(sport, sports[k])

\* the if / elif chain that sets betbck_sport_category and pinnacle_sport_category
sport_category(league_raw, sport_raw) ==
    LET league == Lower(league_raw)
        sport == Lower(sport_raw)
    IN  IF InLeagueOrSport(basketball_sports, league, sport) THEN "basketball"
        ELSE IF InLeagueOrSport(football_sports, league, sport) THEN "football"
        ELSE IF InLeagueOrSport(baseball_sports, league, sport) THEN "baseball"
        ELSE IF InLeagueOrSport(soccer_sports, league, sport) THEN "soccer"
        ELSE IF InLeagueOrSport(hockey_sports, league, sport) THEN "hockey"
        ELSE Absent

(***************************************************************************)
(* An event_datetime is modelled by what datetime.fromisoformat makes of   *)
(* it: kind "none" is a missing or empty string, "bad" a string that does  *)
(* not parse, "aware" a time with a UTC offset (t is its instant, in       *)
(* seconds) and "naive" a time without one (t is its wall clock).          *)
(***************************************************************************)
Abs(x) == IF x < 0 THEN -x ELSE x

\* TRUE when the candidate loop takes the 'continue' of the [TIME-SKIP] branch;
\* a parse error, or the TypeError of subtracting a naive from an aware
\* datetime, is caught by 'except Exception' and the candidate is kept
time_skip(betbck_time, pinnacle_time) ==
    /\ betbck_time.kind # "none" /\ pinnacle_time.kind # "none"
    /\ betbck_time.kind # "bad" /\ pinnacle_time.kind # "bad"
    /\ betbck_time.kind = pinnacle_time.kind
    /\ Abs(betbck_time.t - pinnacle_time.t) > TimeWindowSeconds

\* "Skip if sports don't match (but allow if we can't determine sport for either)"
sport_category_skip(betbck_game, pinnacle_event) ==
    LET betbck_sport_category == sport_category(betbck_game.league, betbck_game.sport)
        pinnacle_sport_category == sport_category(pinnacle_event.league, pinnacle_event.sport)
    IN  /\ betbck_sport_category # Absent
        /\ pinnacle_sport_category # Absent
        /\ betbck_sport_category # pinnacle_sport_category

\* betbck_game.get('betbck_game_id', f"{home}_{away}")
betbck_game_id(betbck_game) ==
    IF betbck_game.betbck_game_id = Absent
    THEN betbck_game.betbck_site_home_team \o "_" \o betbck_game.betbck_site_away_team
    ELSE betbck_game.betbck_game_id

NoEvent == [event_id |-> Absent]

\* best_match = None, best_score = 0, best_orientation = None
NoBest == [best_match |-> NoEvent, best_score |-> Rat(0, 1), best_orientation |-> Absent]

\* the 'continue' statements of the candidate loop that depend on the game and
\* the event only
candidate_filtered(betbck_game, pinnacle_event) ==
    \/ is_prop_market_by_name(pinnacle_event.home_team, pinnacle_event.away_team)
    \/ time_skip(betbck_game.event_datetime, pinnacle_event.event_datetime)
    \/ ~is_league_compatible(betbck_game, pinnacle_event)
    \/ sport_category_skip(betbck_game, pinnacle_event)
    \/ normalize_team_name_for_matching(pinnacle_event.home_team) = ""
    \/ normalize_team_name_for_matching(pinnacle_event.away_team) = ""

score_direct(betbck_game, pinnacle_event) ==
    token_set_ratio(normalize_team_name_for_matching(betbck_game.betbck_site_home_team)
                        \o " " \o normalize_team_name_for_matching(betbck_game.betbck_site_away_team),
                    normalize_team_name_for_matching(pinnacle_event.home_team)
                        \o " " \o normalize_team_name_for_matching(pinnacle_event.away_team))

score_flipped(betbck_game, pinnacle_event) ==
    token_set_ratio(normalize_team_name_for_matching(betbck_game.betbck_site_home_team)
                        \o " " \o normalize_team_name_for_matching(betbck_game.betbck_site_away_team),
                    normalize_team_name_for_matching(pinnacle_event.away_team)
                        \o " " \o normalize_team_name_for_matching(pinnacle_event.home_team))

(***************************************************************************)
(* The reference events and secondary games the calls draw from.  Two      *)
(* events share an event_id, two games share a betbck_game_id and one game *)
(* has none; datetimes are missing, aware and naive.                       *)
(***************************************************************************)
NoTime == [kind |-> "none", t |-> 0]

AwareTime(t) == [kind |-> "aware", t |-> t]

NaiveTime(t) == [kind |-> "naive", t |-> t]

PinnacleEvent(id, home, away, time, league) ==
    [event_id |-> id, home_team |-> home, away_team |-> away,
     event_datetime |-> time, league |-> league, sport |-> ""]

BetbckGame(id, home, away, time, league, top_ml, bottom_ml) ==
    [betbck_game_id |-> id, betbck_site_home_team |-> home,
     betbck_site_away_team |-> away, event_datetime |-> time,
     league |-> league, sport |-> "",
     betbck_site_odds |-> [site_top_team_moneyline_american |-> top_ml,
                           site_bottom_team_moneyline_american |-> bottom_ml]]

PinnacleEvents ==
    { PinnacleEvent("1", "Juventus", "Internazionale", AwareTime(0), "Serie A"),
      PinnacleEvent("2", "Inter", "Juventuss", NaiveTime(200000), ""),
      PinnacleEvent("1", "Juventus", "Roma", AwareTime(86401), "") }

BetbckGames ==
    { BetbckGame("a", "Inter Milan", "Juventus", AwareTime(0), "Serie A", "+150", "-170"),
      BetbckGame(Absent, "Inter Milan", "Juventus", NoTime, "", "+140", "-160"),
      BetbckGame("a", "Juventus", "Roma", AwareTime(1), "NBA", "-120", "+100") }

(***************************************************************************)
(* What the loops compute from one game, one event, or one pair of them,   *)
(* evaluated once for the games and events above.  The operators of the    *)
(* call take these tables as their parameter facts.                        *)
(***************************************************************************)
GameFacts ==
    [g \in BetbckGames |->
        LET norm_bck_home == normalize_team_name_for_matching(g.betbck_site_home_team)
            norm_bck_away == normalize_team_name_for_matching(g.betbck_site_away_team)
        IN  [norm_bck_home |-> norm_bck_home,
             norm_bck_away |-> norm_bck_away,
             betbck_sport |-> determine_sport_from_teams(norm_bck_home, norm_bck_away)]]

EventFacts ==
    [e \in PinnacleEvents |->
        [norm_event_home |-> normalize_team_name_for_matching(e.home_team),
         norm_event_away |-> normalize_team_name_for_matching(e.away_team),
         is_minor |-> is_minor(e),
         sport |-> determine_sport_from_teams(Lower(e.home_team), Lower(e.away_team))]]

PairFacts ==
    [g \in BetbckGames, e \in PinnacleEvents |->
        [filtered |-> candidate_filtered(g, e),
         score_direct |-> score_direct(g, e),
         score_flipped |-> score_flipped(g, e)]]

\* events_by_sport.get(sport, []): the events that are not minor-league, of one sport
relevant_events(pinnacle_events, sport, facts) ==
    SelectSeq(pinnacle_events,
              LAMBDA event : ~facts.event[event].is_minor /\ facts.event[event].sport = sport)

\* "Try both orientations": the scoring of one candidate; best is the triple
\* (best_match, best_score, best_orientation), stop says that the loop took a
\* 'break'
score_step(pinnacle_event, pair, best) ==
    LET direct == pair.score_direct
        flipped == pair.score_flipped
        best1 == IF RatLess(best.best_score, direct)
                 THEN [best_match |-> pinnacle_event, best_score |-> direct,
                       best_orientation |-> TRUE]
                 ELSE best
        stop1 == /\ RatLess(best.best_score, direct)
                 /\ RatLeq(Rat(EarlyTerminationScore, 1), direct)
        best2 == IF RatLess(best1.best_score, flipped)
                 THEN [best_match |-> pinnacle_event, best_score |-> flipped,
                       best_orientation |-> FALSE]
                 ELSE best1
        stop2 == /\ RatLess(best1.best_score, flipped)
                 /\ RatLeq(Rat(EarlyTerminationScore, 1), flipped)
    IN  IF stop1 THEN [best |-> best1, stop |-> TRUE]
        ELSE [best |-> best2, stop |-> stop2]

\* the candidate loop without the test of processed_pinnacle_event_ids
candidate_step_any_event(pinnacle_event, pair, processed_pinnacle_event_ids, best) ==
    IF pair.filtered
    THEN [best |-> best, stop |-> FALSE]
    ELSE score_step(pinnacle_event, pair, best)

\* one iteration of the candidate loop; pair holds the facts of the game and
\* the event
candidate_step(pinnacle_event, pair, processed_pinnacle_event_ids, best) ==
    IF \/ pinnacle_event.event_id \in processed_pinnacle_event_ids
       \/ pair.filtered
    THEN [best |-> best, stop |-> FALSE]
    ELSE score_step(pinnacle_event, pair, best)

RECURSIVE candidate_loop(_, _, _, _, _, _)
candidate_loop(betbck_game, events, i, processed_pinnacle_event_ids, best, facts) ==
    IF i > Len(events) THEN best
    ELSE LET step == candidate_step(events[i], facts.pair[betbck_game, events[i]],
                                    processed_pinnacle_event_ids, best)
         IN  IF step.stop THEN step.best
             ELSE candidate_loop(betbck_game, events, i + 1,
                                 processed_pinnacle_event_ids, step.best, facts)

\* "Explicitly map BetBCK odds to event ID home/away"
mapped_odds(betbck_game, game, event) ==
    LET top == game.norm_bck_home
        bottom == game.norm_bck_away
        norm_event_home == event.norm_event_home
        norm_event_away == event.norm_event_away
        top_ml == betbck_game.betbck_site_odds.site_top_team_moneyline_american
        bottom_ml == betbck_game.betbck_site_odds.site_bottom_team_moneyline_american
    IN  IF top = norm_event_home /\ bottom = norm_event_away
        THEN [betbck_home_odds |-> top_ml, betbck_away_odds |-> bottom_ml]
        ELSE IF top = norm_event_away /\ bottom = norm_event_home
        THEN [betbck_home_odds |-> bottom_ml, betbck_away_odds |-> top_ml]
        ELSE [betbck_home_odds |-> Absent, betbck_away_odds |-> Absent]

\* game and event hold the facts of the game and of best_match
match_record(betbck_game, best, game, event) ==
    [pinnacle_event_id |-> best.best_match.event_id,
     pinnacle_home_team |-> best.best_match.home_team,
     pinnacle_away_team |-> best.best_match.away_team,
     betbck_game |-> betbck_game,
     match_confidence |-> Rat(best.best_score.num, best.best_score.den * 100),
     betbck_home_team |-> betbck_game.betbck_site_home_team,
     betbck_away_team |-> betbck_game.betbck_site_away_team,
     normalized_betbck_home |-> game.norm_bck_home,
     normalized_betbck_away |-> game.norm_bck_away,
     normalized_pinnacle_home |-> event.norm_event_home,
     normalized_pinnacle_away |-> event.norm_event_away,
     match_score |-> best.best_score,
     orientation |-> IF best.best_orientation = TRUE THEN "direct" ELSE "flipped",
     betbck_home_odds |-> mapped_odds(betbck_game, game, event).betbck_home_odds,
     betbck_away_odds |-> mapped_odds(betbck_game, game, event).betbck_away_odds,
     sport |-> game.betbck_sport]

unmatched_record(betbck_game, reason) ==
    [betbck_home |-> betbck_game.betbck_site_home_team,
     betbck_away |-> betbck_game.betbck_site_away_team,
     reason |-> reason]

\* one iteration of the game loop; st holds matched_events, unmatched_betbck,
\* processed_pinnacle_event_ids and the function attribute matched_betbck_ids
game_step(betbck_game, pinnacle_events, st, facts) ==
    IF betbck_game_id(betbck_game) \in st.matched_betbck_ids THEN st
    ELSE LET game == facts.game[betbck_game]
         IN  IF game.norm_bck_home = "" \/ game.norm_bck_away = ""
             THEN [st EXCEPT !.unmatched_betbck =
                      Append(@, unmatched_record(betbck_game, "normalization_failed"))]
             ELSE LET best == candidate_loop(betbck_game,
                                  relevant_events(pinnacle_events, game.betbck_sport, facts),
                                  1, st.processed_pinnacle_event_ids, NoBest, facts)
                  IN  IF /\ best.best_match # NoEvent
                         /\ RatLeq(Rat(FUZZY_MATCH_THRESHOLD, 1), best.best_score)
                      THEN [st EXCEPT
                               !.processed_pinnacle_event_ids =
                                   @ \cup {best.best_match.event_id},
                               !.matched_betbck_ids = @ \cup {betbck_game_id(betbck_game)},
                               !.matched_events =
                                   Append(@, match_record(betbck_game, best, game,
                                                          facts.event[best.best_match]))]
                      ELSE [st EXCEPT !.unmatched_betbck =
                               Append(@, unmatched_record(betbck_game,
                                             IF best.best_match # NoEvent
                                             THEN "below_threshold"
                                             ELSE "no_candidates"))]

RECURSIVE game_loop(_, _, _, _, _)
game_loop(betbck_games, i, pinnacle_events, st, facts) ==
    IF i > Len(betbck_games) THEN st
    ELSE game_loop(betbck_games, i + 1, pinnacle_events,
                   game_step(betbck_games[i], pinnacle_events, st, facts), facts)

Facts == [game |-> GameFacts, event |-> EventFacts, pair |-> PairFacts]

\* the end of the call, from the state st the game loop leaves: the match
\* rate of the summary divides by len(betbck_games), and matched_events is
\* returned
summary_and_return(betbck_games, st) ==
    [raised |-> IF Len(betbck_games) = 0 THEN "ZeroDivisionError" ELSE Absent,
     matched_events |-> IF Len(betbck_games) = 0 THEN <<>> ELSE st.matched_events,
     unmatched_betbck |-> st.unmatched_betbck,
     matched_betbck_ids |-> st.matched_betbck_ids]

\* the call: what it returns (or that it raised), and the function attribute
\* matched_betbck_ids after it
match_pinnacle_to_betbck(pinnacle_events, betbck_games, ids) ==
    summary_and_return(betbck_games,
                       game_loop(betbck_games, 1, pinnacle_events,
                                 [matched_events |-> <<>>, unmatched_betbck |-> <<>>,
                                  processed_pinnacle_event_ids |-> {},
                                  matched_betbck_ids |-> ids],
                                 Facts))

(***************************************************************************)
(* The odds / EV engine: backend/utils/pod_utils.py.                       *)
(*                                                                         *)
(* An Optional value of the source is a set of at most one element: None   *)
(* is {}.  A dictionary is a function on the keys it binds to a value      *)
(* other than None: dict.get cannot tell a key bound to None from a        *)
(* missing key, and the engine reads its dictionaries with get only.       *)
(* A float is the exact rational it stands for, Rat(n, d); a price or a    *)
(* line held in a dictionary is written in thousandths (1870 is 1.87).     *)
(***************************************************************************)
None == {}

Some(x) == {x}

The(o) == CHOOSE x \in o : TRUE

\* the elements of an Optional value, as a sequence
OptSeq(o) == IF o = {} THEN <<>> ELSE <<The(o)>>

\* d.get(k)
Get(d, k) == IF k \in DOMAIN d THEN {d[k]} ELSE {}

\* d[k] = o
Put(d, k, o) ==
    IF o = {} THEN [x \in DOMAIN d \ {k} |-> d[x]]
    ELSE [x \in DOMAIN d \cup {k} |-> IF x = k THEN The(o) ELSE d[x]]

\* the truth value Python gives an Optional str, an Optional number and an
\* Optional dictionary or list
TruthyStr(o) == o # {} /\ The(o) # ""

TruthyNum(o) == o # {} /\ The(o) # 0

TruthyDict(o) == o # {} /\ DOMAIN The(o) # {}

\* a or b
OrNum(a, b) == IF TruthyNum(a) THEN a ELSE b

RECURSIVE Gcd(_, _)
Gcd(a, b) == IF b = 0 THEN a ELSE Gcd(b, a % b)

\* the rational n / d (d # 0) in lowest terms, with a positive denominator
Frac(n, d) ==
    LET g == Gcd(Abs(n), Abs(d))
    IN  IF d < 0 THEN Rat(-(n \div g), -(d \div g)) ELSE Rat(n \div g, d \div g)

Milli(m) == Frac(m, 1000)

RatSub(x, y) == Frac(x.num * y.den - y.num * x.den, x.den * y.den)

RatAdd(x, y) == Frac(x.num * y.den + y.num * x.den, x.den * y.den)

RatDiv(x, y) == Frac(x.num * y.den, x.den * y.num)

\* round(n / d) for d > 0: to the nearest integer, a tie to the even one
RoundHalfEven(n, d) ==
    LET q == n \div d
        r == n - q * d
    IN  IF 2 * r < d THEN q
        ELSE IF 2 * r > d THEN q + 1
        ELSE IF q % 2 = 0 THEN q ELSE q + 1

DigitStr(k) == Ch("0123456789", k + 1)

DigitVal(c) == CHOOSE k \in 0..9 : DigitStr(k) = c

\* str(n) of an int n >= 0
RECURSIVE NatStr(_)
NatStr(n) == IF n < 10 THEN DigitStr(n) ELSE NatStr(n \div 10) \o DigitStr(n % 10)

\* str(n) of an int
IntStr(n) == IF n < 0 THEN "-" \o NatStr(-n) ELSE NatStr(n)

AllDigits(s) == s # "" /\ \A i \in 1..Len(s) : IsDigit(Ch(s, i))

\* int(s) of a string of digits
RECURSIVE DigitsVal(_)
DigitsVal(s) ==
    IF s = "" THEN 0
    ELSE 10 * DigitsVal(SubSeq(s, 1, Len(s) - 1)) + DigitVal(Ch(s, Len(s)))

HasSign(s) == StartsWith(s, "+") \/ StartsWith(s, "-")

Unsigned(s) == IF HasSign(s) THEN SubSeq(s, 2, Len(s)) ELSE s

\* a line of the secondary book is a str (what the scraper delivers) or a number
StrLine(s) == [string |-> s]

NumLine(m) == [number |-> m]

IsNumber(v) == "number" \in DOMAIN v

\* float(s) of a str, in thousandths: an optional sign, digits and at most one
\* point; None where float raises ValueError.  Digits after the third
\* decimal are dropped: no line of the model has any.
ParseFloat(s) ==
    LET t == Unsigned(Strip(s))
        dots == Occurrences(t, ".")
        whole == IF dots = {} THEN t ELSE SubSeq(t, 1, MinOf(dots) - 1)
        frac == IF dots = {} THEN "" ELSE SubSeq(t, MinOf(dots) + 1, Len(t))
        magnitude == 1000 * DigitsVal(whole) + DigitsVal(SubSeq(frac \o "000", 1, 3))
    IN  IF Cardinality(dots) > 1 \/ ~AllDigits(whole \o frac) THEN None
        ELSE IF StartsWith(Strip(s), "-") THEN Some(-magnitude) ELSE Some(magnitude)

\* float(v) of a line
Float(v) == IF IsNumber(v) THEN Some(v.number) ELSE ParseFloat(v.string)

\* str(x) of a float x given in thousandths
FloatStr(m) ==
    LET frac == Abs(m) % 1000
        decimals == IF frac % 100 = 0 THEN DigitStr(frac \div 100)
                    ELSE IF frac % 10 = 0
                         THEN DigitStr(frac \div 100) \o DigitStr((frac \div 10) % 10)
                         ELSE DigitStr(frac \div 100) \o DigitStr((frac \div 10) % 10)
                                  \o DigitStr(frac % 10)
    IN  (IF m < 0 THEN "-" ELSE "") \o NatStr(Abs(m) \div 1000) \o "." \o decimals

\* str(-x) of a float x: the negation of 0.0 is -0.0
NegFloatStr(m) == IF m = 0 THEN "-0.0" ELSE FloatStr(-m)

\* math.isclose(a, b, abs_tol=0.01) of two floats in thousandths (the relative
\* tolerance 1e-09 is below a thousandth for every line)
IsClose(a, b) == Abs(a - b) <= 10

\* pod_utils.py:17
american_to_decimal(american_odds_str) ==
    IF american_odds_str = None THEN None
    ELSE LET s == Strip(The(american_odds_str))
             odds == IF StartsWith(s, "-") THEN -DigitsVal(Unsigned(s))
                     ELSE DigitsVal(Unsigned(s))
         IN  IF ~AllDigits(Unsigned(s)) THEN None
             ELSE IF odds > 0 THEN Some(Frac(odds + 100, 100))
             ELSE IF odds < 0 THEN Some(Frac(100 - odds, -odds))
             ELSE None

\* decimal_to_american with '> 2.0' for '>= 2.0'
decimal_to_american_above_two(decimal_odds) ==
    IF decimal_odds = None THEN None
    ELSE LET d == The(decimal_odds)
         IN  IF RatLeq(d, Rat(10001, 10000)) THEN None
             ELSE IF RatLess(Rat(2, 1), d)
                  THEN Some("+" \o IntStr(RoundHalfEven((d.num - d.den) * 100, d.den)))
                  ELSE Some(IntStr(-RoundHalfEven(100 * d.den, d.num - d.den)))

\* pod_utils.py:33.  round() is taken of the exact quotient; the floating
\* point quotient rounds the same way except when the exact one lies half
\* way between two integers, and no price of the universe below does.
decimal_to_american(decimal_odds) ==
    IF decimal_odds = None THEN None
    ELSE LET d == The(decimal_odds)
         IN  IF RatLeq(d, Rat(10001, 10000)) THEN None
             ELSE IF RatLeq(Rat(2, 1), d)
                  THEN Some("+" \o IntStr(RoundHalfEven((d.num - d.den) * 100, d.den)))
                  ELSE Some(IntStr(-RoundHalfEven(100 * d.den, d.num - d.den)))

\* pod_utils.py:43
calculate_ev(bet_decimal, true_decimal) ==
    IF \/ bet_decimal = None \/ true_decimal = None
       \/ The(bet_decimal).num <= 0 \/ The(true_decimal).num <= 0
    THEN Rat(0, 1)
    ELSE RatSub(RatDiv(The(bet_decimal), The(true_decimal)), Rat(1, 1))

\* f"{ev*100:.2f}%": the percentage rounded to hundredths (whole * 100 is
\* even, so the tie of the rest goes where the tie of the sum goes)
EvStr(ev) ==
    LET whole == (ev.num * 100) \div ev.den
        rest == ev.num * 100 - whole * ev.den
        hundredths == whole * 100 + RoundHalfEven(rest * 100, ev.den)
    IN  (IF ev.num < 0 THEN "-" ELSE "") \o NatStr(Abs(hundredths) \div 100) \o "."
            \o DigitStr((Abs(hundredths) \div 10) % 10) \o DigitStr(Abs(hundredths) % 10)
            \o "%"

\* [F(x) for x in xs]
Map(xs, F(_)) == [i \in 1..Len(xs) |-> F(xs[i])]

\* the concatenation of a sequence of sequences
RECURSIVE Concat(_)
Concat(xss) == IF xss = <<>> THEN <<>> ELSE xss[1] \o Concat(Tail(xss))

\* the rows F(x) appends, for x in xs
FlatMap(xs, F(_)) == Concat(Map(xs, F))

\* the keys of items, a sequence of <<key, Optional value>>, set in d one
\* after the other
RECURSIVE PutAll(_, _)
PutAll(d, items) ==
    IF items = <<>> THEN d ELSE PutAll(Put(d, items[1][1], items[1][2]), Tail(items))

\* an Optional price in thousandths as an Optional float
MilliOpt(o) == {Milli(m) : m \in o}

\* 'odd is not None and isinstance(odd, (int, float)) and odd > 1.0001', for a
\* price in thousandths
IsValidOdd(odd) == odd # None /\ The(odd) > 1000

\* an implied sum without overround, whatever the odds
no_overround(odds) == Rat(1, 1)

\* sum(implied_probs)
RECURSIVE SumImplied(_)
SumImplied(odds) ==
    IF odds = <<>> THEN Rat(0, 1) ELSE RatAdd(Frac(1000, odds[1]), SumImplied(Tail(odds)))

\* [round(1.0 / p, 3) for p in adjust_power_probabilities(implied_probs)].
\* The power method iterates pow and log in floating point: its fair prices
\* are tabulated from the source, for the markets the reference events of
\* the model quote above the 1.0001 margin.
power_method_nvps ==
    (<<1700, 2200>> :> <<1760, 2316>>)
    @@ (<<1800, 2150>> :> <<1833, 2201>>)
    @@ (<<1830, 2050>> :> <<1888, 2127>>)
    @@ (<<1870, 1950>> :> <<1956, 2046>>)
    @@ (<<1900, 1900>> :> <<2000, 2000>>)
    @@ (<<1900, 1950>> :> <<1973, 2028>>)
    @@ (<<1950, 1870>> :> <<2046, 1956>>)
    @@ (<<2000, 1850>> :> <<2086, 1921>>)
    @@ (<<2100, 1750>> :> <<2216, 1822>>)
    @@ (<<2200, 1700>> :> <<2316, 1760>>)
    @@ (<<2500, 3200, 2900>> :> <<2626, 3406, 3071>>)
    @@ (<<2600, 1500>> :> <<2814, 1551>>)
    @@ (<<3000, 1400>> :> <<3279, 1439>>)
    @@ (<<3100, 2100, 3600>> :> <<3371, 2219, 3958>>)

\* calculate_nvp_for_market returning its input where it removes no vig
calculate_nvp_or_input(odds_list) ==
    LET valid_odds_indices == {i \in 1..Len(odds_list) : IsValidOdd(odds_list[i])}
        current_valid_odds == Map(SelectSeq(odds_list, IsValidOdd), The)
        implied == SumImplied(current_valid_odds)
    IN  IF \/ Cardinality(valid_odds_indices) < 2
           \/ implied.num - implied.den <= implied.den \div 10000
        THEN odds_list
        ELSE [i \in 1..Len(odds_list) |->
                 IF i \in valid_odds_indices
                 THEN Some(power_method_nvps[current_valid_odds][
                               Cardinality({j \in valid_odds_indices : j <= i})])
                 ELSE None]

\* pod_utils.py:96
calculate_nvp_for_market(odds_list) ==
    LET valid_odds_indices == {i \in 1..Len(odds_list) : IsValidOdd(odds_list[i])}
        current_valid_odds == Map(SelectSeq(odds_list, IsValidOdd), The)
        implied == SumImplied(current_valid_odds)
        nvps_for_valid == IF implied.num - implied.den <= implied.den \div 10000
                          THEN current_valid_odds
                          ELSE power_method_nvps[current_valid_odds]
    IN  IF Cardinality(valid_odds_indices) < 2 THEN [i \in 1..Len(odds_list) |-> None]
        ELSE [i \in 1..Len(odds_list) |->
                 IF i \in valid_odds_indices
                 THEN Some(nvps_for_valid[Cardinality({j \in valid_odds_indices : j <= i})])
                 ELSE None]

\* the money_line branch of process_event_odds_for_display
process_money_line(ml) ==
    LET nvps_dec == calculate_nvp_for_market(<<Get(ml, "home"), Get(ml, "draw"),
                                               Get(ml, "away")>>)
    IN  PutAll(ml,
               <<<<"nvp_home", nvps_dec[1]>>, <<"nvp_draw", nvps_dec[2]>>,
                 <<"nvp_away", nvps_dec[3]>>,
                 <<"american_home", decimal_to_american(MilliOpt(Get(ml, "home")))>>,
                 <<"american_draw", decimal_to_american(MilliOpt(Get(ml, "draw")))>>,
                 <<"american_away", decimal_to_american(MilliOpt(Get(ml, "away")))>>,
                 <<"nvp_american_home", decimal_to_american(MilliOpt(nvps_dec[1]))>>,
                 <<"nvp_american_draw", decimal_to_american(MilliOpt(nvps_dec[2]))>>,
                 <<"nvp_american_away", decimal_to_american(MilliOpt(nvps_dec[3]))>>>>)

\* the body of the spreads loop (sides home and away) and of the totals loop
\* (sides over and under) of process_event_odds_for_display
process_two_way(details, first, second) ==
    LET nvps_dec == calculate_nvp_for_market(<<Get(details, first), Get(details, second)>>)
    IN  PutAll(details,
               <<<<"nvp_" \o first, nvps_dec[1]>>, <<"nvp_" \o second, nvps_dec[2]>>,
                 <<"american_" \o first, decimal_to_american(MilliOpt(Get(details, first)))>>,
                 <<"american_" \o second,
                   decimal_to_american(MilliOpt(Get(details, second)))>>,
                 <<"nvp_american_" \o first, decimal_to_american(MilliOpt(nvps_dec[1]))>>,
                 <<"nvp_american_" \o second, decimal_to_american(MilliOpt(nvps_dec[2]))>>>>)

\* None where the feed has no dictionary for a spread or a total
NullEntry == [null |-> TRUE]

\* isinstance(details, dict), of a value of a spreads or totals dictionary
IsDict(details) == details # NullEntry

\* the body of the loop over the periods.  A spreads or totals dictionary is
\* the sequence of its values, in the order of the dictionary.
process_period(period_data) ==
    LET no_history == [k \in DOMAIN period_data \ {"history"} |-> period_data[k]]
        with_ml == IF TruthyDict(Get(no_history, "money_line"))
                   THEN Put(no_history, "money_line",
                            Some(process_money_line(no_history.money_line)))
                   ELSE no_history
        with_spreads == IF TruthyDict(Get(with_ml, "spreads"))
                        THEN Put(with_ml, "spreads",
                                 Some(Map(with_ml.spreads,
                                          LAMBDA d : IF IsDict(d)
                                                     THEN process_two_way(d, "home", "away")
                                                     ELSE d)))
                        ELSE with_ml
    IN  IF TruthyDict(Get(with_spreads, "totals"))
        THEN Put(with_spreads, "totals",
                 Some(Map(with_spreads.totals,
                          LAMBDA d : IF IsDict(d) THEN process_two_way(d, "over", "under")
                                     ELSE d)))
        ELSE with_spreads

\* pod_utils.py:124; the event is changed in place, this is what it becomes
process_event_odds_for_display(pinnacle_event_json_data) ==
    IF "data" \notin DOMAIN pinnacle_event_json_data THEN pinnacle_event_json_data
    ELSE LET event_detail == pinnacle_event_json_data.data
             periods == IF "periods" \in DOMAIN event_detail THEN event_detail.periods
                        ELSE <<>>
         IN  IF DOMAIN periods = {} THEN pinnacle_event_json_data
             ELSE Put(pinnacle_event_json_data, "data",
                      Some(Put(event_detail, "periods",
                               Some([k \in DOMAIN periods |-> process_period(periods[k])]))))

\* the number of leading digits of s
LeadingDigits(s) ==
    LET rest == {i \in 1..Len(s) : ~IsDigit(Ch(s, i))}
    IN  IF rest = {} THEN Len(s) ELSE MinOf(rest) - 1

\* what [0-9]+\.?[0-9]* matches at the start of s, "" when it does not match
NumberPrefix(s) ==
    LET n == LeadingDigits(s)
    IN  IF n = 0 THEN ""
        ELSE IF Len(s) > n /\ Ch(s, n + 1) = "."
             THEN SubSeq(s, 1, n + 1 + LeadingDigits(SubSeq(s, n + 2, Len(s))))
             ELSE SubSeq(s, 1, n)

\* pod_utils.py:289, of an Optional line, in thousandths.  The half sign is
\* not a character of the model; the average of two lines is exact for the
\* quarter lines of the books.
normalize_total_line(line) ==
    IF line = None THEN None
    ELSE IF IsNumber(The(line)) THEN Some(The(line).number)
    ELSE LET s == Replace(Replace(The(line).string, " ", ""), ",", ".")
             first == NumberPrefix(s)
             second == NumberPrefix(SubSeq(s, Len(first) + 2, Len(s)))
         IN  IF /\ first # "" /\ Len(s) > Len(first)
                /\ Ch(s, Len(first) + 1) = "/" /\ second # ""
             THEN Some((The(ParseFloat(first)) + The(ParseFloat(second))) \div 2)
             ELSE ParseFloat(s)

\* pod_utils.py:304
format_bet_description(market, selection, line, home_team, away_team) ==
    IF market = "Moneyline"
    THEN IF selection = "Home" /\ home_team # "" THEN "ML - " \o home_team
         ELSE IF selection = "Away" /\ away_team # "" THEN "ML - " \o away_team
         ELSE "ML - " \o selection
    ELSE IF market = "Spread"
    THEN IF selection = "Home" /\ home_team # "" THEN home_team \o " " \o line
         ELSE IF selection = "Away" /\ away_team # "" THEN away_team \o " " \o line
         ELSE selection \o " " \o line
    ELSE IF market = "Total"
    THEN IF selection = "Over" THEN "Over " \o line
         ELSE IF selection = "Under" THEN "Under " \o line
         ELSE selection \o " " \o line
    ELSE market \o " - " \o selection

\* d.get(k, default)
GetOr(d, k, default) == IF k \in DOMAIN d THEN d[k] ELSE default

\* a or b, of Optional dictionaries
OrDict(a, b) == IF TruthyDict(a) THEN a ELSE b

\* a full-game lookup that knows the 'num_0' key only
full_game_period_num_only(periods) == Get(periods, "num_0")

\* periods.get('num_0') or periods.get('0')
full_game_period(periods) == OrDict(Get(periods, "num_0"), Get(periods, "0"))

\* a first-half lookup that falls back on the full-game keys
first_half_period_or_full_game(periods) ==
    OrDict(Get(periods, "num_1"), OrDict(Get(periods, "1"), full_game_period(periods)))

\* periods.get('num_1') or periods.get('1')
first_half_period(periods) == OrDict(Get(periods, "num_1"), Get(periods, "1"))

\* a guard that fails only when there is first-half data and no period at all
validate_any_period(bet_data, pinnacle_data) ==
    LET has_1h_betbck == TruthyDict(Get(bet_data, "1H_data"))
        periods == GetOr(GetOr(pinnacle_data, "data", <<>>), "periods", <<>>)
    IN  ~(/\ has_1h_betbck
          /\ ~TruthyDict(first_half_period(periods))
          /\ ~TruthyDict(full_game_period(periods)))

\* pod_utils.py:331
_validate_period_separation(bet_data, pinnacle_data) ==
    LET has_1h_betbck == TruthyDict(Get(bet_data, "1H_data"))
        pin_data == GetOr(pinnacle_data, "data", <<>>)
        periods == GetOr(pin_data, "periods", <<>>)
        has_1h_pinnacle == TruthyDict(first_half_period(periods))
        has_full_game_pinnacle == TruthyDict(full_game_period(periods))
    IN  IF has_1h_betbck /\ ~has_full_game_pinnacle THEN FALSE
        ELSE IF has_1h_pinnacle /\ ~has_full_game_pinnacle THEN FALSE
        ELSE TRUE

\* the dictionary appended to potential_bets
potential_bet(market, selection, line, pinnacle_nvp, pinnacle_limit, betbck_odds, ev, pin_data) ==
    LET home_team == GetOr(pin_data, "home", "")
        away_team == GetOr(pin_data, "away", "")
    IN  Put([market |-> market, selection |-> selection, line |-> line,
             pinnacle_nvp |-> The(pinnacle_nvp), betbck_odds |-> The(betbck_odds),
             ev |-> EvStr(ev), home_team |-> home_team, away_team |-> away_team,
             bet |-> format_bet_description(market, selection, line, home_team,
                                            away_team)],
            "pinnacle_limit", pinnacle_limit)

\* true_odds = entry.get('nvp_<side>') with the raw price of the side instead
raw_odds(entry, side) == Get(entry, side)

\* true_odds = entry.get('nvp_<side>'), of a moneyline, spread or total entry
true_odds(entry, side) == Get(entry, "nvp_" \o side)

\* 'if bet_odds and true_odds'
Priced(bet_odds, fair_odds) ==
    bet_odds # None /\ The(bet_odds).num # 0 /\ TruthyNum(fair_odds)

\* one 'if bet.get(<side>_moneyline_american) and ml.get(nvp_american_<side>)'
\* block: the rows it appends
moneyline_row(bet, ml, side, selection, market, pinnacle_limit, pin_data) ==
    LET betbck_odds == Get(bet, side \o "_moneyline_american")
        bet_odds == american_to_decimal(betbck_odds)
    IN  IF /\ TruthyStr(betbck_odds)
           /\ TruthyStr(Get(ml, "nvp_american_" \o side))
           /\ Priced(bet_odds, true_odds(ml, side))
        THEN <<potential_bet(market, selection, "", Get(ml, "nvp_american_" \o side),
                             pinnacle_limit, betbck_odds,
                             calculate_ev(bet_odds, MilliOpt(true_odds(ml, side))),
                             pin_data)>>
        ELSE <<>>

\* the pairing test of the spread loops with the away line compared as the
\* home line is
spread_lines_match_unsigned(side, bet_line, line) == IsClose(bet_line, line)

\* the pairing test of the spread loops without a tolerance
spread_lines_equal(side, bet_line, line) ==
    IF side = "home" THEN bet_line = line ELSE bet_line = -line

\* math.isclose(float(bet_line), float(line)) for the home side and
\* math.isclose(float(bet_line), -float(line)) for the away side
spread_lines_match(side, bet_line, line) ==
    IF side = "home" THEN IsClose(bet_line, line) ELSE IsClose(bet_line, -line)

\* the body of the spread loops, for one secondary option s and one reference
\* entry pin_spread; a float() that raises is caught and the option skipped
spread_row(s, pin_spread, side, selection, market, meta_limits, pin_data) ==
    LET bet_line == IF Get(s, "line") = None THEN None ELSE Float(s.line)
        line == Get(pin_spread, "hdp")
        bet_odds == american_to_decimal(Get(s, "odds"))
    IN  IF /\ bet_line # None
           /\ line # None
           /\ spread_lines_match(side, The(bet_line), The(line))
           /\ TruthyStr(Get(pin_spread, "nvp_american_" \o side))
           /\ Priced(bet_odds, true_odds(pin_spread, side))
        THEN <<potential_bet(market, selection,
                             IF side = "home" THEN FloatStr(The(line))
                             ELSE NegFloatStr(The(line)),
                             Get(pin_spread, "nvp_american_" \o side),
                             OrNum(Get(pin_spread, "max"), Get(meta_limits, "max_spread")),
                             Get(s, "odds"),
                             calculate_ev(bet_odds, MilliOpt(true_odds(pin_spread, side))),
                             pin_data)>>
        ELSE <<>>

\* the body of the first-half totals loops, for one secondary option total and
\* one reference entry pin_total: math.isclose is given the line as it is, and
\* the TypeError it raises for a str is caught and the option skipped.  The
\* Under row has no pinnacle_limit.
first_half_total_row(total, pin_total, side, selection, meta_limits, pin_data) ==
    LET bet_line == Get(total, "line")
        pin_line == normalize_total_line({NumLine(p) : p \in Get(pin_total, "points")})
        bet_odds == american_to_decimal(Get(total, "odds"))
    IN  IF /\ bet_line # None
           /\ pin_line # None
           /\ IsNumber(The(bet_line))
           /\ IsClose(The(bet_line).number, The(pin_line))
           /\ TruthyStr(Get(pin_total, "nvp_american_" \o side))
           /\ Priced(bet_odds, true_odds(pin_total, side))
        THEN <<potential_bet("1H Total", selection, FloatStr(The(pin_line)),
                             Get(pin_total, "nvp_american_" \o side),
                             IF side = "over"
                             THEN OrNum(Get(pin_total, "max"), Get(meta_limits, "max_total"))
                             ELSE None,
                             Get(total, "odds"),
                             calculate_ev(bet_odds, MilliOpt(true_odds(pin_total, side))),
                             pin_data)>>
        ELSE <<>>

\* the loops of the first-half analyzer come to pin_spread.get or
\* pin_total.get of an entry that is None: lines 425, 450, 478, 503, outside
\* the try of the selection
first_half_raises(bet_1h_data, pinnacle_1h_data) ==
    \/ /\ \E pin_spread \in SeqToSet(GetOr(pinnacle_1h_data, "spreads", <<>>)) :
              ~IsDict(pin_spread)
       /\ \/ GetOr(bet_1h_data, "home_spreads", <<>>) # <<>>
          \/ GetOr(bet_1h_data, "away_spreads", <<>>) # <<>>
    \/ /\ \E pin_total \in SeqToSet(GetOr(pinnacle_1h_data, "totals", <<>>)) :
              ~IsDict(pin_total)
       /\ \/ GetOr(bet_1h_data, "home_totals", <<>>) # <<>>
          \/ GetOr(bet_1h_data, "away_totals", <<>>) # <<>>

\* pod_utils.py:367; an exception of the loops is caught at line 527
_analyze_1h_markets_for_ev(bet_1h_data, pinnacle_1h_data, pin_data) ==
    LET pin_ml == GetOr(pinnacle_1h_data, "money_line", <<>>)
        meta_limits == GetOr(pinnacle_1h_data, "meta", <<>>)
        ml_limit == OrNum(Get(pin_ml, "max_money_line"), Get(meta_limits, "max_money_line"))
        pin_spreads == GetOr(pinnacle_1h_data, "spreads", <<>>)
        pin_totals == GetOr(pinnacle_1h_data, "totals", <<>>)
    IN  IF first_half_raises(bet_1h_data, pinnacle_1h_data) THEN <<>> ELSE
        moneyline_row(bet_1h_data, pin_ml, "home", "Home", "1H Moneyline", ml_limit, pin_data)
        \o moneyline_row(bet_1h_data, pin_ml, "away", "Away", "1H Moneyline", ml_limit,
                         pin_data)
        \o FlatMap(GetOr(bet_1h_data, "home_spreads", <<>>),
                   LAMBDA spread :
                       FlatMap(pin_spreads,
                               LAMBDA pin_spread :
                                   spread_row(spread, pin_spread, "home", "Home",
                                              "1H Spread", meta_limits, pin_data)))
        \o FlatMap(GetOr(bet_1h_data, "away_spreads", <<>>),
                   LAMBDA spread :
                       FlatMap(pin_spreads,
                               LAMBDA pin_spread :
                                   spread_row(spread, pin_spread, "away", "Away",
                                              "1H Spread", meta_limits, pin_data)))
        \o FlatMap(GetOr(bet_1h_data, "home_totals", <<>>),
                   LAMBDA total :
                       FlatMap(pin_totals,
                               LAMBDA pin_total :
                                   first_half_total_row(total, pin_total, "over", "Over",
                                                        meta_limits, pin_data)))
        \o FlatMap(GetOr(bet_1h_data, "away_totals", <<>>),
                   LAMBDA total :
                       FlatMap(pin_totals,
                               LAMBDA pin_total :
                                   first_half_total_row(total, pin_total, "under", "Under",
                                                        meta_limits, pin_data)))

\* one reference entry of the full-game totals loop, for one side: the row it
\* proposes as best_over or best_under, with its ev_val
total_candidate(bck_total, pin_total, side, selection, meta_limits, pin_data) ==
    LET pin_line == normalize_total_line({NumLine(p) : p \in Get(pin_total, "points")})
        betbck_odds == bck_total[side \o "_odds"]
        bet_odds == american_to_decimal(betbck_odds)
        ev == calculate_ev(bet_odds, MilliOpt(true_odds(pin_total, side)))
    IN  IF /\ bck_total.line # None
           /\ pin_line # None
           /\ IsClose(The(bck_total.line), The(pin_line))
           /\ TruthyStr(betbck_odds)
           /\ TruthyStr(Get(pin_total, "nvp_american_" \o side))
           /\ Priced(bet_odds, true_odds(pin_total, side))
        THEN Some([ev_val |-> ev,
                   row |-> potential_bet("Total", selection, FloatStr(The(pin_line)),
                                         Get(pin_total, "nvp_american_" \o side),
                                         OrNum(Get(pin_total, "max"),
                                               Get(meta_limits, "max_total")),
                                         betbck_odds, ev, pin_data)])
        ELSE None

\* best_over or best_under as the latest candidate of the loop
RECURSIVE latest_total(_, _, _, _, _, _, _)
latest_total(bck_total, pin_totals, side, selection, meta_limits, pin_data, best) ==
    IF pin_totals = <<>> THEN best
    ELSE LET candidate == total_candidate(bck_total, pin_totals[1], side, selection,
                                          meta_limits, pin_data)
         IN  latest_total(bck_total, Tail(pin_totals), side, selection, meta_limits, pin_data,
                          IF candidate # None THEN candidate ELSE best)

\* best_over or best_under after the loop over pin_totals: a later candidate
\* replaces the best one only with a higher EV
RECURSIVE best_total(_, _, _, _, _, _, _)
best_total(bck_total, pin_totals, side, selection, meta_limits, pin_data, best) ==
    IF pin_totals = <<>> THEN best
    ELSE LET candidate == total_candidate(bck_total, pin_totals[1], side, selection,
                                          meta_limits, pin_data)
         IN  best_total(bck_total, Tail(pin_totals), side, selection, meta_limits, pin_data,
                        IF /\ candidate # None
                           /\ (best = None \/ RatLess(The(best).ev_val, The(candidate).ev_val))
                        THEN candidate
                        ELSE best)

\* the loops of analyze_markets_for_ev come to pin_spread.get or
\* pin_total.get of an entry that is None: lines 691 and 766, outside the try
\* of the selection
full_game_raises(bet_data_copy, full_game) ==
    \/ \E pin_spread \in SeqToSet(GetOr(full_game, "spreads", <<>>)) : ~IsDict(pin_spread)
    \/ /\ \E pin_total \in SeqToSet(GetOr(full_game, "totals", <<>>)) : ~IsDict(pin_total)
       /\ Get(bet_data_copy, "game_total_line") # None

\* the moneyline, spread and total sections of analyze_markets_for_ev
full_game_rows(bet_data_copy, full_game, pin_data) ==
    LET ml == GetOr(full_game, "money_line", <<>>)
        meta_limits == GetOr(full_game, "meta", <<>>)
        ml_limit == OrNum(OrNum(OrNum(Get(ml, "max_money_line"),
                                      Get(meta_limits, "max_money_line")),
                                Get(meta_limits, "max_spread")),
                          Get(meta_limits, "max_total"))
        pin_spreads == GetOr(full_game, "spreads", <<>>)
        pin_totals == GetOr(full_game, "totals", <<>>)
        betbck_totals ==
            IF Get(bet_data_copy, "game_total_line") = None THEN <<>>
            ELSE <<[line |-> normalize_total_line(Get(bet_data_copy, "game_total_line")),
                    over_odds |-> Get(bet_data_copy, "game_total_over_odds"),
                    under_odds |-> Get(bet_data_copy, "game_total_under_odds")]>>
        best(side, selection) ==
            IF betbck_totals = <<>> THEN None
            ELSE best_total(betbck_totals[1], pin_totals, side, selection, meta_limits,
                            pin_data, None)
    IN  moneyline_row(bet_data_copy, ml, "home", "Home", "Moneyline", ml_limit, pin_data)
        \o moneyline_row(bet_data_copy, ml, "away", "Away", "Moneyline", ml_limit, pin_data)
        \o moneyline_row(bet_data_copy, ml, "draw", "Draw", "Moneyline", ml_limit, pin_data)
        \o FlatMap(pin_spreads,
                   LAMBDA pin_spread :
                       FlatMap(GetOr(bet_data_copy, "home_spreads", <<>>),
                               LAMBDA s : spread_row(s, pin_spread, "home", "Home", "Spread",
                                                     meta_limits, pin_data))
                       \o FlatMap(GetOr(bet_data_copy, "away_spreads", <<>>),
                                  LAMBDA s : spread_row(s, pin_spread, "away", "Away",
                                                        "Spread", meta_limits, pin_data)))
        \o Map(OptSeq(best("over", "Over")), LAMBDA b : b.row)
        \o Map(OptSeq(best("under", "Under")), LAMBDA b : b.row)

\* pod_utils.py:532: the rows returned, and the message of the error or
\* warning logged on the way ("" when there is none)
analyze_markets_for_ev(bet_data, pinnacle_data) ==
    LET pin_data == GetOr(pinnacle_data, "data", <<>>)
        periods == GetOr(pin_data, "periods", <<>>)
        full_game == full_game_period(periods)
        first_half == first_half_period(periods)
        has_1h == TruthyDict(Get(bet_data, "1H_data"))
        no_rows(message) == [potential_bets |-> <<>>, log |-> message]
    IN  IF ~_validate_period_separation(bet_data, pinnacle_data)
        THEN no_rows("Period separation validation failed - aborting EV calculation")
        ELSE IF DOMAIN pinnacle_data = {}
        THEN no_rows("No Pinnacle data available (None)")
        ELSE IF ~TruthyDict(Get(pinnacle_data, "data"))
        THEN no_rows("No 'data' key in Pinnacle data")
        ELSE IF full_game = None
        THEN no_rows("full_game is None")
        ELSE IF ~TruthyDict(full_game)
        THEN no_rows("No 'num_0' or '0' period found in periods")
        ELSE IF full_game_raises(bet_data, The(full_game))
        THEN no_rows("Error analyzing markets: 'NoneType' object has no attribute 'get'")
        ELSE [potential_bets |->
                  full_game_rows(bet_data, The(full_game), pin_data)
                  \o (IF has_1h /\ TruthyDict(first_half)
                      THEN _analyze_1h_markets_for_ev(bet_data["1H_data"], The(first_half),
                                                      pin_data)
                      ELSE <<>>),
              log |-> IF has_1h /\ ~TruthyDict(first_half)
                      THEN "No 1H Pinnacle data found, skipping 1H BetBCK data"
                      ELSE ""]

(***************************************************************************)
(* The scraper: backend/betbck_scraper.py.                                 *)
(*                                                                         *)
(* _market_type_context is a threading.local: a function from the threads  *)
(* to the Optional value each of them has stored.                          *)
(***************************************************************************)
\* betbck_scraper.py:75: the value the thread reads; the attribute of a
\* thread that has none is set to "Spread" by the read
get_market_type_context(context, thread) ==
    IF context[thread] = None THEN "Spread" ELSE The(context[thread])

\* the storage after get_market_type_context
after_get_market_type_context(context, thread) ==
    [context EXCEPT ![thread] = Some(get_market_type_context(context, thread))]

\* a context stored for the whole process
set_process_wide_context(context, thread, value) == [t \in DOMAIN context |-> Some(value)]

\* betbck_scraper.py:80
set_market_type_context(context, thread, value) == [context EXCEPT ![thread] = Some(value)]

\* a login that never fails
login_always(login_response) == TRUE

\* betbck_scraper.py:84: login_response is None where the request timed out
\* or raised, and otherwise what the response of the POST shows
login_to_betbck(login_response) ==
    /\ login_response # None
    /\ The(login_response).url \in {"StraightLoginSportSelection.php", "MainMenu.php"}
    /\ The(login_response).logout
    /\ ~The(login_response).invalid_user

\* betbck_scraper.py:100: the wager number of the page, where the page came
\* and has one; with it the sport selection, 'sport' by default
get_search_prerequisites(page) ==
    IF page # None /\ TruthyStr(The(page).inetWagerNumber)
    THEN [inet_wager |-> The(page).inetWagerNumber,
          inet_sport_select |-> IF TruthyStr(The(page).inetSportSelection)
                                THEN The(The(page).inetSportSelection) ELSE "sport"]
    ELSE [inet_wager |-> None, inet_sport_select |-> "sport"]

\* what normalize_team_name_for_matching of betbck_scraper.py (line 161)
\* returns for the home teams of the model
cleaned_home_teams ==
    [pod_home_team \in {"", "If", "Juventus", "Manchester United", "De Graafschap",
                        "St Louis City"} |->
        CASE pod_home_team = "" -> ""
          [] pod_home_team = "If" -> "if"
          [] pod_home_team = "Juventus" -> "juventus"
          [] pod_home_team = "Manchester United" -> "manchester united"
          [] pod_home_team = "De Graafschap" -> "de graafschap"
          [] pod_home_team = "St Louis City" -> "st louis city"]

\* betbck_scraper.py:556-565: the query, given or derived from the home team
actual_search_query(pod_home_team, search_team_name_betbck) ==
    IF TruthyStr(search_team_name_betbck) THEN The(search_team_name_betbck)
    ELSE LET temp_cleaned_home == cleaned_home_teams[pod_home_team]
             home_parts == Split(temp_cleaned_home)
             last == home_parts[Len(home_parts)]
         IN  IF home_parts = <<>> THEN pod_home_team
             ELSE IF /\ Len(home_parts) > 1
                     /\ Len(last) > 3
                     /\ last \notin {"fc", "sc", "united", "city", "club", "de", "do", "ac",
                                     "if", "bk", "aif", "kc"}
             THEN last
             ELSE IF /\ Len(home_parts[1]) > 2
                     /\ home_parts[1] \notin {"fc", "sc", "ac", "if", "bk", "de", "do", "aif",
                                              "kc"}
             THEN home_parts[1]
             ELSE temp_cleaned_home

\* betbck_scraper.py:115: nothing is posted without a query; response is
\* None where the POST timed out or raised, and otherwise the page
search_team_and_get_results_html(team_name_query, inet_wager_val, response) ==
    IF team_name_query = "" \/ ~TruthyStr(inet_wager_val) THEN None
    ELSE IF response = None THEN None
    ELSE Some(The(response))

\* betbck_scraper.py:362: the record of the target game, where the page
\* holds it
parse_specific_game_from_search_html(html_content, target_home_team_pod) ==
    IF html_content.text = "" \/ ~html_content.game THEN None
    ELSE Some([source |-> "betbck.com", pod_home_team |-> target_home_team_pod])

\* betbck_scraper.py:583-594
with_betbck_payload(parsed_game_data, html_content, query) ==
    [source |-> parsed_game_data.source, pod_home_team |-> parsed_game_data.pod_home_team,
     betbck_payload |-> [inetWagerNumber |-> html_content.inetWagerNumber,
                         inetSportSelection |-> "sport",
                         keyword_search |-> query]]

\* betbck_scraper.py:826: the first-half lines of the page, or None
extract_1h_data_from_html(html_content) ==
    IF html_content.first_half THEN Some([home_totals |-> <<>>, away_totals |-> <<>>])
    ELSE None

\* betbck_scraper.py:596-598
with_1H_data(parsed_game_data, html_content) ==
    [source |-> parsed_game_data.source, pod_home_team |-> parsed_game_data.pod_home_team,
     betbck_payload |-> parsed_game_data.betbck_payload,
     1H_data |-> extract_1h_data_from_html(html_content)]

\* f"{x:.2f}" and f"{x:+.2f}" of a float x given in thousandths
TwoDecimals(m, plus) ==
    LET hundredths == RoundHalfEven(Abs(m), 10)
    IN  (IF m < 0 THEN "-" ELSE IF plus THEN "+" ELSE "")
            \o NatStr(hundredths \div 100) \o "."
            \o DigitStr((hundredths \div 10) % 10) \o DigitStr(hundredths % 10)

\* fmt[:-3] if fmt.endswith(".00") else fmt.replace(".50", ".5")
TrimHalf(fmt) ==
    IF EndsWith(fmt, ".00") THEN SubSeq(fmt, 1, Len(fmt) - 3) ELSE Replace(fmt, ".50", ".5")

\* the line of an average of two values (lines 208-213, 227-232)
format_average(avg, market_type) ==
    IF market_type = "Spread"
    THEN IF avg = 0 THEN "0" ELSE TrimHalf(TwoDecimals(avg, TRUE))
    ELSE TrimHalf(TwoDecimals(avg, FALSE))

\* the line of a single value (lines 238-250)
format_single(val, market_type) ==
    IF market_type = "Spread"
    THEN IF val = 0 THEN "0" ELSE TrimHalf(TwoDecimals(val, TRUE))
    ELSE LET fmt == TwoDecimals(val, FALSE)
         IN  IF EndsWith(fmt, ".00") THEN SubSeq(fmt, 1, Len(fmt) - 3)
             ELSE IF EndsWith(fmt, "0") THEN SubSeq(fmt, 1, Len(fmt) - 1)
             ELSE fmt

\* "pk" in s.lower()
HasPk(s) == \E pk \in {"pk", "Pk", "pK", "PK"} : Contains(s, pk)

\* betbck_scraper.py:192, of a str, under the context the thread reads; the
\* half sign and the no-break space are not characters of the model
normalize_asian_handicap(line_str_input, market_type) ==
    LET line_str == Replace(line_str_input, " ", "")
        commas == Occurrences(line_str, ",")
        first == SubSeq(line_str, 1, MinOf(commas) - 1)
        second == SubSeq(line_str, MinOf(commas) + 1, Len(line_str))
        pk_value(part) == IF HasPk(part) THEN Some(0) ELSE ParseFloat(part)
        \* float() keeps the sign of a zero, and the Total format prints it
        minus_zero(part) == ParseFloat(part) = Some(0) /\ StartsWith(part, "-")
        single == IF ParseFloat(line_str) = None THEN line_str_input
                  ELSE IF market_type # "Spread" /\ minus_zero(line_str) THEN "-0"
                  ELSE format_single(The(ParseFloat(line_str)), market_type)
    IN  IF HasPk(line_str) /\ commas = {} THEN "0"
        ELSE IF Cardinality(commas) = 1
        THEN LET v1 == IF HasPk(line_str) THEN pk_value(Strip(first))
                       ELSE ParseFloat(first)
                 v2 == IF HasPk(line_str) THEN pk_value(Strip(second))
                       ELSE ParseFloat(second)
             IN  IF v1 = None \/ v2 = None THEN line_str_input
                 ELSE IF /\ market_type # "Spread" /\ ~HasPk(line_str)
                         /\ minus_zero(first) /\ minus_zero(second) THEN "-0"
                 ELSE format_average((The(v1) + The(v2)) \div 2, market_type)
        ELSE single

(***************************************************************************)
(* The reference events and secondary games the engine is run on.  Events  *)
(* are as the feed delivers them, before process_event_odds_for_display:   *)
(* with both periods, one of them or none, keyed 'num_0' / 'num_1' or      *)
(* '0' / '1'.  The two periods of an event quote the same lines at         *)
(* different prices.  Games come with and without first-half data, and    *)
(* with lines that pair with a reference line, with its negation, or with  *)
(* none.                                                                   *)
(***************************************************************************)
FullGameA ==
    [money_line |-> [home |-> 1800, away |-> 2150],
     spreads |-> <<[hdp |-> -1500, home |-> 2600, away |-> 1500, max |-> 2500],
                   [hdp |-> -1000, home |-> 2200, away |-> 1700],
                   [hdp |-> -2500, home |-> 3400]>>,
     totals |-> <<[points |-> 8500, over |-> 1900, under |-> 1950],
                  [points |-> 9000, over |-> 2100, under |-> 1750]>>,
     meta |-> [max_money_line |-> 5000, max_spread |-> 3000, max_total |-> 2000],
     history |-> <<1>>]

FirstHalfA ==
    [money_line |-> [home |-> 1950, away |-> 1870],
     spreads |-> <<[hdp |-> -1500, home |-> 3000, away |-> 1400],
                   [hdp |-> -500, home |-> 1870, away |-> 1950, max |-> 1000]>>,
     totals |-> <<[points |-> 4500, over |-> 1900, under |-> 1900]>>,
     meta |-> [max_money_line |-> 1500]]

FullGameB ==
    [money_line |-> [home |-> 2500, draw |-> 3200, away |-> 2900],
     spreads |-> <<[hdp |-> 0, home |-> 1830, away |-> 2050],
                   [hdp |-> -250, home |-> 2000, away |-> 2000]>>,
     totals |-> <<[points |-> 2500, over |-> 2000, under |-> 1850]>>]

FirstHalfB ==
    [money_line |-> [home |-> 3100, draw |-> 2100, away |-> 3600],
     spreads |-> <<[hdp |-> 0, home |-> 1700, away |-> 2200]>>,
     totals |-> <<[points |-> 1000, over |-> 1900, under |-> 1900]>>]

PinnacleEventData(home, away, periods) ==
    [data |-> [home |-> home, away |-> away, periods |-> periods]]

PinnacleData ==
    { PinnacleEventData("Milwaukee Brewers", "Philadelphia Phillies",
                        ("num_0" :> FullGameA) @@ ("num_1" :> FirstHalfA)),
      PinnacleEventData("Milwaukee Brewers", "Philadelphia Phillies",
                        ("num_0" :> FullGameA)),
      PinnacleEventData("Milwaukee Brewers", "Philadelphia Phillies",
                        ("num_1" :> FirstHalfA)),
      PinnacleEventData("Milwaukee Brewers", "Philadelphia Phillies", <<>>),
      PinnacleEventData("Juventus", "Roma", ("0" :> FullGameB) @@ ("1" :> FirstHalfB)),
      PinnacleEventData("Juventus", "Roma", ("0" :> FullGameB)),
      PinnacleEventData("Juventus", "Roma", ("1" :> FirstHalfB)) }

\* a secondary option: a line and its American price
Option(line, odds) == [line |-> line, odds |-> odds]

GameA ==
    [home_moneyline_american |-> "-105", away_moneyline_american |-> "+125",
     home_spreads |-> <<Option(StrLine("-1.5"), "+160"), Option(StrLine("-1"), "+115"),
                        Option(StrLine("-2.5"), "+250")>>,
     away_spreads |-> <<Option(StrLine("+1.5"), "-180"), Option(StrLine("-1"), "+105")>>,
     game_total_line |-> StrLine("8.5"), game_total_over_odds |-> "-110",
     game_total_under_odds |-> "-112"]

FirstHalfDataA ==
    [home_moneyline_american |-> "-102", away_moneyline_american |-> "-118",
     home_spreads |-> <<Option(StrLine("-1.5"), "+210"), Option(StrLine("-0.5"), "-108")>>,
     away_spreads |-> <<Option(StrLine("+1.5"), "-250"), Option(StrLine("+0.5"), "-112"),
                        Option(StrLine("-0.5"), "+100")>>,
     home_totals |-> <<Option(NumLine(4500), "-105")>>,
     away_totals |-> <<Option(StrLine("4.5"), "-115")>>]

GameB ==
    [home_moneyline_american |-> "+150", away_moneyline_american |-> "+190",
     draw_moneyline_american |-> "+220",
     home_spreads |-> <<Option(StrLine("0"), "-125"), Option(StrLine("-0.25"), "+102"),
                        Option(StrLine("pk"), "-120")>>,
     away_spreads |-> <<Option(StrLine("0"), "+105"), Option(StrLine("+0.25"), "-102")>>,
     game_total_line |-> StrLine("2.5"), game_total_over_odds |-> "+100",
     game_total_under_odds |-> "-120"]

FirstHalfDataB ==
    [home_moneyline_american |-> "+210", away_moneyline_american |-> "+260",
     draw_moneyline_american |-> "+110",
     home_spreads |-> <<Option(StrLine("0"), "-140")>>,
     away_spreads |-> <<Option(StrLine("0"), "+120")>>,
     home_totals |-> <<Option(NumLine(1000), "-110")>>,
     away_totals |-> <<Option(NumLine(1000), "-110")>>]

\* prices that american_to_decimal does not parse
GameC ==
    [home_moneyline_american |-> "EV", away_moneyline_american |-> "",
     home_spreads |-> <<Option(StrLine("-1.5"), "-1x0")>>,
     game_total_line |-> StrLine("8.5"), game_total_over_odds |-> "-110"]

WithFirstHalf(game, first_half_data) == ("1H_data" :> first_half_data) @@ game

BetData ==
    { GameA,
      WithFirstHalf(GameA, FirstHalfDataA),
      WithFirstHalf(GameA, <<>>),
      GameB,
      WithFirstHalf(GameB, FirstHalfDataB),
      WithFirstHalf(<<>>, FirstHalfDataA),
      GameC }

(***************************************************************************)
(* The process.  The matcher: calls of match_pinnacle_to_betbck, one after *)
(* the other; matched_betbck_ids is the attribute the function keeps on    *)
(* itself, pinnacle_events and betbck_games are the arguments of the       *)
(* latest call, outcome what it returned.  The EV engine: pinnacle_data is *)
(* the reference event the caller holds, which                             *)
(* process_event_odds_for_display enriches in place, and bet_data the      *)
(* game scraped for it; bet_data_copy and pinnacle_data_copy are the       *)
(* arguments of the latest call of analyze_markets_for_ev, potential_bets  *)
(* the list it returned and log the message it logged on returning early.  *)
(* The functions without state: arguments is the dictionary of the         *)
(* arguments of a call and returned the values returned so far, by the     *)
(* function called on the arguments and by those called on what it         *)
(* returned.                                                               *)
(* The scraper: market_type_context is the thread-local _market_type_      *)
(* context, the value each thread holds or none where the thread has not   *)
(* set the attribute; frames is the call of an extractor each thread is    *)
(* in, normalized the latest line each thread had normalized, and scrape   *)
(* the call of scrape_betbck_for_game.                                     *)
(***************************************************************************)
VARIABLES matched_betbck_ids, pinnacle_events, betbck_games, outcome,
          pinnacle_data, bet_data, pinnacle_data_copy, bet_data_copy, potential_bets, log,
          arguments, returned,
          market_type_context, frames, normalized, scrape

matcher_vars == <<matched_betbck_ids, pinnacle_events, betbck_games, outcome>>

ev_vars == <<pinnacle_data, bet_data, pinnacle_data_copy, bet_data_copy, potential_bets, log>>

call_vars == <<arguments, returned>>

scraper_vars == <<market_type_context, frames, normalized, scrape>>

vars == <<matcher_vars, ev_vars, call_vars, scraper_vars>>

MaxEvents == 2

MaxGames == 2

\* the sequences of at most n distinct elements of S
RECURSIVE DistinctSeqs(_, _)
DistinctSeqs(S, n) ==
    IF n = 0 THEN {<<>>}
    ELSE LET shorter == DistinctSeqs(S, n - 1)
         IN  shorter \cup {q \in {Append(s, x) : s \in {q \in shorter : Len(q) = n - 1},
                                          x \in S} :
                                Cardinality(SeqToSet(q)) = n}

EventLists == DistinctSeqs(PinnacleEvents, MaxEvents)

GameLists == DistinctSeqs(BetbckGames, MaxGames)

MatcherStart ==
    /\ matched_betbck_ids = {}
    /\ pinnacle_events = <<>>
    /\ betbck_games = <<>>
    /\ outcome = [raised |-> Absent, matched_events |-> <<>>, unmatched_betbck |-> <<>>]

\* analyze_markets_for_ev has not been called
NotAnalyzed ==
    /\ pinnacle_data_copy = <<>>
    /\ bet_data_copy = <<>>
    /\ potential_bets = <<>>
    /\ log = ""

\* no event and no game are held
EvIdle ==
    /\ pinnacle_data = <<>>
    /\ bet_data = <<>>
    /\ NotAnalyzed

\* no function without state is called
NoCall ==
    /\ arguments = <<>>
    /\ returned = <<>>

Threads == {"t1", "t2"}

\* a thread that is in no extractor
NoFrame ==
    [function |-> "", pc |-> "idle", market_type |-> "", input |-> None, done |-> 0,
     caller_context |-> None, original_context |-> None, result |-> None]

\* scrape_betbck_for_game has not been called
NoScrape ==
    [pc |-> "idle", steps |-> <<>>, pod_home_team |-> "", search_team_name_betbck |-> None,
     login_response |-> None, prerequisite_page |-> None, inet_wager |-> None,
     actual_search_query |-> "", search_results_html |-> None,
     parsed_game_data |-> None, result |-> None]

\* no thread has touched the context and the scraper is not running
ScraperIdle ==
    /\ market_type_context = [t \in Threads |-> None]
    /\ frames = [t \in Threads |-> NoFrame]
    /\ normalized = [t \in Threads |-> None]
    /\ scrape = NoScrape

MatcherInit ==
    /\ MatcherStart
    /\ ScraperIdle
    /\ EvIdle
    /\ NoCall

Match(events, games) ==
    \E r \in {match_pinnacle_to_betbck(events, games, matched_betbck_ids)} :
        /\ matched_betbck_ids' = r.matched_betbck_ids
        /\ outcome' = [raised |-> r.raised, matched_events |-> r.matched_events,
                       unmatched_betbck |-> r.unmatched_betbck]
        /\ pinnacle_events' = events
        /\ betbck_games' = games
        /\ UNCHANGED <<ev_vars, call_vars, scraper_vars>>

MatcherNext == \E events \in EventLists, games \in GameLists : Match(events, games)

MatcherSpec == MatcherInit /\ [][MatcherNext]_vars

EvInit ==
    /\ MatcherStart
    /\ ScraperIdle
    /\ pinnacle_data \in PinnacleData
    /\ bet_data \in BetData
    /\ NotAnalyzed
    /\ NoCall

\* the caller has the event enriched
ProcessEventOdds ==
    /\ pinnacle_data' = process_event_odds_for_display(pinnacle_data)
    /\ UNCHANGED <<bet_data, pinnacle_data_copy, bet_data_copy, potential_bets, log>>
    /\ UNCHANGED <<matcher_vars, call_vars, scraper_vars>>

\* the caller has the game analysed against the event
AnalyzeMarkets ==
    \E r \in {analyze_markets_for_ev(bet_data, pinnacle_data)} :
        /\ bet_data_copy' = bet_data
        /\ pinnacle_data_copy' = pinnacle_data
        /\ potential_bets' = r.potential_bets
        /\ log' = r.log
        /\ UNCHANGED <<pinnacle_data, bet_data>>
        /\ UNCHANGED <<matcher_vars, call_vars, scraper_vars>>

EvNext == ProcessEventOdds \/ AnalyzeMarkets

EvSpec == EvInit /\ [][EvNext]_vars

MaxAmerican == 160

\* American prices as the int and as the str the scraper reads, with the
\* prices at the ends of the range and some that are no prices
AmericanOdds ==
    LET magnitudes == 100..MaxAmerican \cup {1000, 10000, 99999, 100000}
    IN  {IntStr(a) : a \in magnitudes} \cup {IntStr(-a) : a \in magnitudes}
            \cup {"+" \o IntStr(a) : a \in magnitudes}
            \cup {"0", "-0", "99", "-99", "EV", "", "+", "1.5", " -110 "}

OddsInit ==
    /\ MatcherStart
    /\ ScraperIdle
    /\ EvIdle
    /\ arguments \in {[american_odds_str |-> s] : s \in AmericanOdds}
    /\ returned = <<>>

\* american_to_decimal(american_odds_str)
AmericanToDecimal ==
    /\ "american_odds_str" \in DOMAIN arguments
    /\ returned = <<>>
    /\ returned' = <<american_to_decimal(Some(arguments.american_odds_str))>>
    /\ UNCHANGED <<arguments, matcher_vars, ev_vars, scraper_vars>>

\* decimal_to_american of what american_to_decimal returned
DecimalToAmerican ==
    /\ "american_odds_str" \in DOMAIN arguments
    /\ Len(returned) = 1
    /\ returned' = Append(returned, decimal_to_american(returned[1]))
    /\ UNCHANGED <<arguments, matcher_vars, ev_vars, scraper_vars>>

OddsNext == AmericanToDecimal \/ DecimalToAmerican

OddsSpec == OddsInit /\ [][OddsNext]_vars

\* pod_utils.py:192, but for the names with an apostrophe or a hyphen, which
\* are not over Alphabet: the aliases of each canonical name
TEAM_ALIASES ==
    ("north korea" :> {"korea dpr", "dpr korea"})
    @@ ("south korea" :> {"korea republic", "republic of korea"})
    @@ ("czech republic" :> {"czechia"})
    @@ ("united states" :> {"usa", "us", "united states of america"})
    @@ ("iran" :> {"iran", "iran isl", "islamic republic of iran"})
    @@ ("russia" :> {"russian federation"})
    @@ ("tottenham" :> {"tottenham hotspur", "spurs"})
    @@ ("psg" :> {"paris saint germain", "paris sg"})
    @@ ("tiger cats" :> {"hamilton tiger cats"})
    @@ ("blue bombers" :> {"winnipeg blue bombers"})
    @@ ("roughriders" :> {"saskatchewan roughriders"})
    @@ ("stampeders" :> {"calgary stampeders"})
    @@ ("eskimos" :> {"edmonton eskimos", "edmonton elks"})
    @@ ("redblacks" :> {"ottawa redblacks"})
    @@ ("argonauts" :> {"toronto argonauts"})
    @@ ("alouettes" :> {"montreal alouettes"})
    @@ ("lions" :> {"bc lions", "british columbia lions"})
    @@ ("new york" :> {"ny"})
    @@ ("los angeles" :> {"la"})
    @@ ("st louis" :> {"st. louis"})
    @@ ("inter" :> {"inter milan", "internazionale"})
    @@ ("altach" :> {"rheindorf altach", "scr altach"})

\* raw names: leading digit groups, stacked prefixes, a team, stacked league
\* and country suffixes; and the names of the alias table
TeamNames ==
    {digits \o prefixes \o team \o suffixes :
         digits \in {"", "12 ", "12 34 "},
         prefixes \in {"", "FC ", "sc fc ", "sc fc if "},
         team \in {"x", "Roma", "New York Yankees"},
         suffixes \in {"", " mlb", " mlb nba", " Serie A"}}
        \cup DOMAIN TEAM_ALIASES \cup UNION {TEAM_ALIASES[c] : c \in DOMAIN TEAM_ALIASES}

NormalizerInit ==
    /\ MatcherStart
    /\ ScraperIdle
    /\ EvIdle
    /\ arguments \in {[name |-> name] : name \in TeamNames}
    /\ returned = <<>>

\* normalize_team_name_for_matching(name)
Normalize ==
    /\ "name" \in DOMAIN arguments
    /\ returned = <<>>
    /\ returned' = <<normalize_team_name_for_matching(arguments.name)>>
    /\ UNCHANGED <<arguments, matcher_vars, ev_vars, scraper_vars>>

\* normalize_team_name_for_matching of what it returned
NormalizeAgain ==
    /\ "name" \in DOMAIN arguments
    /\ Len(returned) = 1
    /\ returned' = Append(returned, normalize_team_name_for_matching(returned[1]))
    /\ UNCHANGED <<arguments, matcher_vars, ev_vars, scraper_vars>>

NormalizerNext == Normalize \/ NormalizeAgain

NormalizerSpec == NormalizerInit /\ [][NormalizerNext]_vars

\* the prices of markets, in thousandths: those quoted above the 1.0001
\* margin and some quoted at or below it
Markets ==
    DOMAIN power_method_nvps
        \cup {<<2000, 2000>>, <<2100, 2000>>, <<1500, 3000>>, <<10000, 1111>>,
               <<3000, 3000, 3000>>, <<4000, 3000, 2500>>}

\* odds lists: each market as it is, after or before a missing price, and
\* around a price of 1.0; and lists with fewer than two valid prices
OddsLists ==
    {Map(market, Some) : market \in Markets}
        \cup {<<None>> \o Map(market, Some) : market \in Markets}
        \cup {Map(market, Some) \o <<None>> : market \in Markets}
        \cup {<<Some(market[1]), Some(1000)>> \o Map(Tail(market), Some) : market \in Markets}
        \cup {<<>>, <<None>>, <<Some(1900)>>, <<Some(1900), None>>,
               <<None, Some(1900), None>>, <<Some(1000), Some(1000)>>,
               <<Some(1900), Some(1000)>>, <<Some(500), Some(1900), None>>}

NvpInit ==
    /\ MatcherStart
    /\ ScraperIdle
    /\ EvIdle
    /\ arguments \in {[odds_list |-> odds_list] : odds_list \in OddsLists}
    /\ returned = <<>>

\* calculate_nvp_for_market(odds_list)
CalculateNvp ==
    /\ "odds_list" \in DOMAIN arguments
    /\ returned = <<>>
    /\ returned' = <<calculate_nvp_for_market(arguments.odds_list)>>
    /\ UNCHANGED <<arguments, matcher_vars, ev_vars, scraper_vars>>

NvpNext == CalculateNvp

NvpSpec == NvpInit /\ [][NvpNext]_vars

\* decimal prices handed to calculate_ev: missing, zero, negative, positive
DecimalPrices ==
    {None, Some(Rat(0, 1)), Some(Rat(-3, 2)), Some(Rat(1, 1)), Some(Rat(1909, 1000)),
     Some(Rat(2, 1)), Some(Rat(21, 10)), Some(Rat(7, 2))}

CalculateEvInit ==
    /\ MatcherStart
    /\ ScraperIdle
    /\ EvIdle
    /\ arguments \in {[bet_decimal |-> bet_decimal, true_decimal |-> true_decimal] :
                         bet_decimal \in DecimalPrices, true_decimal \in DecimalPrices}
    /\ returned = <<>>

\* calculate_ev(bet_decimal, true_decimal)
CalculateEv ==
    /\ "bet_decimal" \in DOMAIN arguments
    /\ returned = <<>>
    /\ returned' = <<calculate_ev(arguments.bet_decimal, arguments.true_decimal)>>
    /\ UNCHANGED <<arguments, matcher_vars, ev_vars, scraper_vars>>

CalculateEvNext == CalculateEv

CalculateEvSpec == CalculateEvInit /\ [][CalculateEvNext]_vars

\* a bound on the total entries of a reference event
MaxTotals == 2

\* reference total entries around the line 8.5, and one away from it
TotalEntries ==
    {[points |-> 8500, over |-> 1900, under |-> 1950],
     [points |-> 8505, over |-> 2100, under |-> 1750],
     [points |-> 8500, over |-> 2000, under |-> 1850],
     [points |-> 8495, over |-> 1900, under |-> 1900],
     [points |-> 9000, over |-> 2200, under |-> 1700]}

\* events whose full game quotes up to MaxTotals of the entries, in any order
TotalsEvents ==
    {PinnacleEventData("Milwaukee Brewers", "Philadelphia Phillies",
                       ("num_0" :> [totals |-> totals])) :
         totals \in DistinctSeqs(TotalEntries, MaxTotals)}

\* games with a total of 8.5
TotalsGames ==
    {[game_total_line |-> StrLine("8.5"), game_total_over_odds |-> "-110",
      game_total_under_odds |-> "-112"],
     [game_total_line |-> NumLine(8500), game_total_over_odds |-> "+105",
      game_total_under_odds |-> "-125"],
     [game_total_line |-> StrLine("8.5"), game_total_over_odds |-> "-110"]}

TotalsInit ==
    /\ MatcherStart
    /\ ScraperIdle
    /\ pinnacle_data \in TotalsEvents
    /\ bet_data \in TotalsGames
    /\ NotAnalyzed
    /\ NoCall

TotalsSpec == TotalsInit /\ [][EvNext]_vars

\* the values a total line is written with, and the signs that separate the
\* two values of a split line
LineValues == {"2", "2.5", "3", "3.5", "8", "8.5", "9"}

Separators == {",", "/"}

\* lines handed to normalize_total_line: missing, numbers, single values,
\* split lines, and text that is no line
TotalLines ==
    {None, Some(NumLine(3000)), Some(NumLine(2750)), Some(StrLine("")), Some(StrLine("x")),
     Some(StrLine("o2.5")), Some(StrLine("2.5/x"))}
        \cup {Some(StrLine(a)) : a \in LineValues}
        \cup {Some(StrLine(a \o sep \o b)) : a \in LineValues, b \in LineValues,
                                              sep \in Separators}

TotalLineInit ==
    /\ MatcherStart
    /\ ScraperIdle
    /\ EvIdle
    /\ arguments \in {[line |-> line] : line \in TotalLines}
    /\ returned = <<>>

\* normalize_total_line(line)
NormalizeTotalLine ==
    /\ "line" \in DOMAIN arguments
    /\ returned = <<>>
    /\ returned' = <<normalize_total_line(arguments.line)>>
    /\ UNCHANGED <<arguments, matcher_vars, ev_vars, scraper_vars>>

TotalLineNext == NormalizeTotalLine

TotalLineSpec == TotalLineInit /\ [][TotalLineNext]_vars

\* a bound on the spread entries of a period of a reference event
MaxSpreads == 2

\* reference spread entries around the line -1.5, two of them on it, and one
\* away from it
NearSpreadEntries ==
    {[hdp |-> -1500, home |-> 1900, away |-> 1950],
     [hdp |-> -1500, home |-> 2000, away |-> 1850],
     [hdp |-> -1505, home |-> 2100, away |-> 1750],
     [hdp |-> -1000, home |-> 2200, away |-> 1700]}

\* events whose two periods quote up to MaxSpreads of the entries, in any
\* order
SpreadsEvents ==
    {PinnacleEventData("Milwaukee Brewers", "Philadelphia Phillies",
                       ("num_0" :> [spreads |-> spreads]) @@ ("num_1" :> [spreads |-> spreads])) :
         spreads \in DistinctSeqs(NearSpreadEntries, MaxSpreads)}

\* games with spreads of -1.5 for the home side, in the full game and in the
\* first half
SpreadsGames ==
    {[home_spreads |-> <<Option(StrLine("-1.5"), "-110")>>,
      away_spreads |-> <<Option(StrLine("+1.5"), "-105")>>,
      1H_data |-> [home_spreads |-> <<Option(StrLine("-1.5"), "+120")>>,
                   away_spreads |-> <<Option(StrLine("+1.5"), "-140")>>]],
     [home_spreads |-> <<Option(StrLine("-1.5"), "-110"), Option(StrLine("-1"), "-150")>>,
      away_spreads |-> <<Option(StrLine("+1.5"), "-105")>>],
     [home_spreads |-> <<Option(NumLine(-1500), "+102")>>,
      1H_data |-> [away_spreads |-> <<Option(NumLine(1500), "-120")>>]]}

SpreadsInit ==
    /\ MatcherStart
    /\ ScraperIdle
    /\ pinnacle_data \in SpreadsEvents
    /\ bet_data \in SpreadsGames
    /\ NotAnalyzed
    /\ NoCall

SpreadsSpec == SpreadsInit /\ [][EvNext]_vars

\* the full game and the first half of the first event, as they are and
\* with a spread or a total that is None
FullGamesWithNull ==
    {FullGameA,
     [FullGameA EXCEPT !.spreads = <<NullEntry>> \o @],
     [FullGameA EXCEPT !.spreads = @ \o <<NullEntry>>],
     [FullGameA EXCEPT !.totals = <<@[1], NullEntry, @[2]>>]}

FirstHalvesWithNull ==
    {FirstHalfA,
     [FirstHalfA EXCEPT !.spreads = @ \o <<NullEntry>>],
     [FirstHalfA EXCEPT !.totals = <<NullEntry>> \o @]}

EventsWithNull ==
    {PinnacleEventData("Milwaukee Brewers", "Philadelphia Phillies",
                       ("num_0" :> full_game) @@ ("num_1" :> first_half)) :
         full_game \in FullGamesWithNull, first_half \in FirstHalvesWithNull}

\* games with prices that parse and prices that do not, with and without
\* spreads and totals
GamesWithInvalid ==
    {GameA, GameC,
     [home_moneyline_american |-> "-105", away_moneyline_american |-> "+125"],
     WithFirstHalf(GameA, FirstHalfDataA),
     WithFirstHalf(GameC, [home_moneyline_american |-> "-102",
                           away_moneyline_american |-> "even"])}

IsolationInit ==
    /\ MatcherStart
    /\ ScraperIdle
    /\ pinnacle_data \in EventsWithNull
    /\ bet_data \in GamesWithInvalid
    /\ NotAnalyzed
    /\ NoCall

IsolationSpec == IsolationInit /\ [][EvNext]_vars

(***************************************************************************)
(* The extractors the threads of the scraper call.  The regular            *)
(* expressions that cut an option's text are not modelled: a cell is given *)
(* as the raw lines and prices the expression of lines 296, 304, 325 or    *)
(* 334 captures from it, or None for a cell that is absent or has no       *)
(* find_all; a text is None where it is empty, and otherwise the raw line  *)
(* the expression of line 270 captures from it, if any.  A thread may be   *)
(* preempted between any two statements; the steps are cut where the       *)
(* context is written and read.                                            *)
(***************************************************************************)
OptionExtractors ==
    {"extract_all_spread_options_from_text", "extract_all_total_options_from_text"}

\* the market type an extractor of options sets (lines 290, 314)
MarketTypeOf(function) ==
    IF function = "extract_all_spread_options_from_text" THEN "Spread" ELSE "Total"

Captured(raw_line, odds_str) == [raw_line |-> raw_line, odds |-> odds_str]

SpreadCells ==
    {None, Some(<<>>), Some(<<Captured("2.5", "-110"), Captured("-1,-1.5", "+120")>>)}

TotalCells ==
    {None, Some(<<Captured("2.5,3", "-115")>>), Some(<<Captured("9", "-105")>>)}

CellsOf(function) ==
    IF function = "extract_all_spread_options_from_text" THEN SpreadCells ELSE TotalCells

\* the texts of extract_line_value_from_text: empty, without a line, with one
Texts == {None, Some(None), Some(Some("2.5")), Some(Some("3,3.5"))}

MarketTypes == {"Spread", "Total"}

Callable(t) == frames[t].pc \in {"idle", "returned"}

\* lines 289-290 and 313-314: the context is saved and set
EnterOptions(t, function, cell_td_element) ==
    /\ Callable(t)
    /\ frames' = [frames EXCEPT ![t] =
           [function |-> function, pc |-> "entered", market_type |-> "",
            input |-> cell_td_element, done |-> 0,
            caller_context |-> Some(get_market_type_context(market_type_context, t)),
            original_context |-> Some(get_market_type_context(market_type_context, t)),
            result |-> None]]
    /\ market_type_context' =
           set_market_type_context(after_get_market_type_context(market_type_context, t),
                                   t, MarketTypeOf(function))
    /\ UNCHANGED <<normalized, scrape, matcher_vars, ev_vars, call_vars>>

\* lines 291 and 316-318: a cell that is absent
ReturnEmpty(t) ==
    /\ frames[t].pc = "entered"
    /\ frames[t].function \in OptionExtractors
    /\ frames[t].input = None
    /\ market_type_context' =
           set_market_type_context(market_type_context, t, The(frames[t].original_context))
    /\ frames' = [frames EXCEPT ![t].pc = "returned", ![t].result = Some(<<>>)]
    /\ UNCHANGED <<normalized, scrape, matcher_vars, ev_vars, call_vars>>

\* lines 298-300, 305-307, 327-330 and 335-338: the next option of the cell
NormalizeOption(t) ==
    /\ frames[t].pc = "entered"
    /\ frames[t].function \in OptionExtractors
    /\ frames[t].input # None
    /\ frames[t].done < Len(The(frames[t].input))
    /\ LET option == The(frames[t].input)[frames[t].done + 1]
           norm_line == normalize_asian_handicap(
                            option.raw_line, get_market_type_context(market_type_context, t))
           options == IF frames[t].result = None THEN <<>> ELSE The(frames[t].result)
       IN  /\ frames' = [frames EXCEPT
                  ![t].done = @ + 1,
                  ![t].result = Some(Append(options, [line |-> norm_line, odds |-> option.odds]))]
           /\ normalized' = [normalized EXCEPT ![t] =
                  Some([function |-> frames[t].function, market_type |-> "",
                        raw_line |-> option.raw_line, line |-> norm_line])]
    /\ market_type_context' = after_get_market_type_context(market_type_context, t)
    /\ UNCHANGED <<scrape, matcher_vars, ev_vars, call_vars>>

\* lines 308 and 340-341: the context is put back and the options returned
ReturnOptions(t) ==
    /\ frames[t].pc = "entered"
    /\ frames[t].function \in OptionExtractors
    /\ frames[t].input # None
    /\ frames[t].done = Len(The(frames[t].input))
    /\ market_type_context' =
           set_market_type_context(market_type_context, t, The(frames[t].original_context))
    /\ frames' = [frames EXCEPT ![t].pc = "returned",
                                ![t].result = IF @ = None THEN Some(<<>>) ELSE @]
    /\ UNCHANGED <<normalized, scrape, matcher_vars, ev_vars, call_vars>>

\* line 255: extract_line_value_from_text sets the context
EnterLineValue(t, text_content, market_type) ==
    /\ Callable(t)
    /\ frames' = [frames EXCEPT ![t] =
           [function |-> "extract_line_value_from_text", pc |-> "entered",
            market_type |-> market_type, input |-> text_content, done |-> 0,
            caller_context |-> Some(get_market_type_context(market_type_context, t)),
            original_context |-> None, result |-> None]]
    /\ market_type_context' = set_market_type_context(market_type_context, t, market_type)
    /\ UNCHANGED <<normalized, scrape, matcher_vars, ev_vars, call_vars>>

\* lines 256-272
ReturnLineValue(t) ==
    /\ frames[t].pc = "entered"
    /\ frames[t].function = "extract_line_value_from_text"
    /\ LET text == frames[t].input
           m == IF text = None THEN None ELSE The(text)
       IN  IF frames[t].market_type = "Total" /\ m # None
           THEN LET line == normalize_asian_handicap(
                                The(m), get_market_type_context(market_type_context, t))
                IN  /\ frames' = [frames EXCEPT ![t].pc = "returned",
                                                ![t].result = Some(line)]
                    /\ normalized' = [normalized EXCEPT ![t] =
                           Some([function |-> frames[t].function,
                                 market_type |-> frames[t].market_type,
                                 raw_line |-> The(m), line |-> line])]
                    /\ market_type_context' =
                           after_get_market_type_context(market_type_context, t)
           ELSE /\ frames' = [frames EXCEPT ![t].pc = "returned"]
                /\ UNCHANGED <<normalized, market_type_context>>
    /\ UNCHANGED <<scrape, matcher_vars, ev_vars, call_vars>>

ExtractorInit ==
    /\ MatcherStart
    /\ ScraperIdle
    /\ EvIdle
    /\ NoCall

ExtractorNext ==
    \E t \in Threads :
        \/ \E function \in OptionExtractors :
               \E cell_td_element \in CellsOf(function) :
                   EnterOptions(t, function, cell_td_element)
        \/ ReturnEmpty(t)
        \/ NormalizeOption(t)
        \/ ReturnOptions(t)
        \/ \E text_content \in Texts, market_type \in MarketTypes :
               EnterLineValue(t, text_content, market_type)
        \/ ReturnLineValue(t)

ExtractorSpec == ExtractorInit /\ [][ExtractorNext]_vars

(***************************************************************************)
(* scrape_betbck_for_game.  What the site answers is chosen by the         *)
(* environment at each request: the response of the login, the page with   *)
(* the search form, the page of the search.  steps records the requests    *)
(* and passes over the page that the call has made.                        *)
(***************************************************************************)
PodHomeTeams == DOMAIN cleaned_home_teams

SearchNames == {None, Some(""), Some("Juve")}

LoginResponses ==
    {None} \cup {Some([url |-> url, logout |-> logout, invalid_user |-> invalid_user]) :
                    url \in {"MainMenu.php", "Login.php"},
                    logout \in BOOLEAN, invalid_user \in BOOLEAN}

PrerequisitePages ==
    {None} \cup {Some([inetWagerNumber |-> w, inetSportSelection |-> None]) :
                    w \in {None, Some(""), Some("77")}}

SearchPages ==
    {[text |-> "", game |-> FALSE, first_half |-> FALSE, inetWagerNumber |-> None]}
        \cup {[text |-> "<html>", game |-> game, first_half |-> first_half,
               inetWagerNumber |-> Some("78")] :
                  game \in BOOLEAN, first_half \in BOOLEAN}

SearchResponses == {None} \cup {Some(page) : page \in SearchPages}

\* line 550-552: the call and its session
StartScrape(pod_home_team, search_team_name_betbck) ==
    /\ scrape.pc \in {"idle", "returned"}
    /\ scrape' = [NoScrape EXCEPT !.pc = "login", !.pod_home_team = pod_home_team,
                                  !.search_team_name_betbck = search_team_name_betbck]
    /\ UNCHANGED <<market_type_context, frames, normalized, matcher_vars, ev_vars, call_vars>>

\* line 553
Login(login_response) ==
    /\ scrape.pc = "login"
    /\ LET s1 == [scrape EXCEPT !.steps = Append(@, "login"),
                                !.login_response = Some(login_response)]
       IN  scrape' = IF login_to_betbck(login_response)
                     THEN [s1 EXCEPT !.pc = "prerequisites"]
                     ELSE [s1 EXCEPT !.pc = "returned", !.result = None]
    /\ UNCHANGED <<market_type_context, frames, normalized, matcher_vars, ev_vars, call_vars>>

\* lines 554-566
SearchPrerequisites(page) ==
    /\ scrape.pc = "prerequisites"
    /\ LET got == get_search_prerequisites(page)
           s1 == [scrape EXCEPT !.steps = Append(@, "prerequisites"),
                                !.prerequisite_page = Some(page),
                                !.inet_wager = got.inet_wager]
       IN  scrape' = IF ~TruthyStr(got.inet_wager)
                     THEN [s1 EXCEPT !.pc = "returned", !.result = None]
                     ELSE [s1 EXCEPT !.pc = "search",
                                     !.actual_search_query =
                                         actual_search_query(scrape.pod_home_team,
                                                             scrape.search_team_name_betbck)]
    /\ UNCHANGED <<market_type_context, frames, normalized, matcher_vars, ev_vars, call_vars>>

\* lines 567-568
Search(response) ==
    /\ scrape.pc = "search"
    /\ LET html == search_team_and_get_results_html(scrape.actual_search_query,
                                                    scrape.inet_wager, response)
           s1 == [scrape EXCEPT !.steps = Append(@, "search"),
                                !.search_results_html = html]
       IN  scrape' = IF html = None \/ The(html).text = ""
                     THEN [s1 EXCEPT !.pc = "returned", !.result = None]
                     ELSE [s1 EXCEPT !.pc = "parse"]
    /\ UNCHANGED <<market_type_context, frames, normalized, matcher_vars, ev_vars, call_vars>>

\* lines 569-594: the page is saved and parsed, and the payload attached
Parse ==
    /\ scrape.pc = "parse"
    /\ LET html == The(scrape.search_results_html)
           parsed == parse_specific_game_from_search_html(html, scrape.pod_home_team)
           s1 == [scrape EXCEPT !.steps = Append(@, "parse")]
       IN  scrape' = IF parsed = None
                     THEN [s1 EXCEPT !.pc = "returned", !.result = None]
                     ELSE [s1 EXCEPT !.pc = "first_half",
                                     !.parsed_game_data =
                                         Some(with_betbck_payload(The(parsed), html,
                                                  scrape.actual_search_query))]
    /\ UNCHANGED <<market_type_context, frames, normalized, matcher_vars, ev_vars, call_vars>>

\* lines 595-601
FirstHalf ==
    /\ scrape.pc = "first_half"
    /\ scrape' = [scrape EXCEPT
           !.steps = Append(@, "first_half"),
           !.pc = "returned",
           !.result = Some(with_1H_data(The(scrape.parsed_game_data),
                                        The(scrape.search_results_html)))]
    /\ UNCHANGED <<market_type_context, frames, normalized, matcher_vars, ev_vars, call_vars>>

ScrapeInit ==
    /\ MatcherStart
    /\ ScraperIdle
    /\ EvIdle
    /\ NoCall

ScrapeNext ==
    \/ \E pod_home_team \in PodHomeTeams, search_team_name_betbck \in SearchNames :
           StartScrape(pod_home_team, search_team_name_betbck)
    \/ \E login_response \in LoginResponses : Login(login_response)
    \/ \E page \in PrerequisitePages : SearchPrerequisites(page)
    \/ \E response \in SearchResponses : Search(response)
    \/ Parse
    \/ FirstHalf

ScrapeSpec == ScrapeInit /\ [][ScrapeNext]_vars

(***************************************************************************)
(* Properties of the matcher.                                              *)
(***************************************************************************)
matched_events == outcome.matched_events

Records == 1..Len(matched_events)

\* the reference event a match record was built from
EventOf(rec) ==
    CHOOSE e \in SeqToSet(pinnacle_events) :
        /\ e.event_id = rec.pinnacle_event_id
        /\ e.home_team = rec.pinnacle_home_team
        /\ e.away_team = rec.pinnacle_away_team

\* the position in betbck_games of the game of a record
GameIndexOf(rec) == CHOOSE i \in 1..Len(betbck_games) : betbck_games[i] = rec.betbck_game

HasRecord(i) == \E k \in Records : matched_events[k].betbck_game = betbck_games[i]

\* C1: within one call, no reference event_id is in more than one match
\* record, and no secondary game (by betbck_game_id, or by the synthesized
\* home_away id when it has none) is in more than one match record.
MatchUniqueness ==
    \A i, j \in Records :
        i # j =>
            /\ matched_events[i].pinnacle_event_id # matched_events[j].pinnacle_event_id
            /\ betbck_game_id(matched_events[i].betbck_game)
                   # betbck_game_id(matched_events[j].betbck_game)

\* two records, for two games that both score 100 on the first event of the call
MatchUniquenessWitness ==
    /\ Len(matched_events) = 2
    /\ Len(pinnacle_events) = 2
    /\ \A k \in Records :
           RatEq(PairFacts[matched_events[k].betbck_game, pinnacle_events[1]].score_direct,
                 Rat(100, 1))

\* C2: the match records a call returns depend only on its arguments: a call
\* with the same reference events and secondary games as the call before it
\* returns the same match records.
SameArgumentsSameRecords ==
    [][(pinnacle_events' = pinnacle_events /\ betbck_games' = betbck_games)
          => outcome'.matched_events = outcome.matched_events]_matcher_vars

\* C6: the orientation of a match record is 'flipped' when the secondary home
\* team is the reference away team and the secondary away team the reference
\* home team, and 'direct' when home is home and away is away (teams compared
\* by their normalized names).
OrientationDetected ==
    \A k \in Records :
        LET rec == matched_events[k]
            home_to_home == /\ rec.normalized_betbck_home = rec.normalized_pinnacle_home
                            /\ rec.normalized_betbck_away = rec.normalized_pinnacle_away
            home_to_away == /\ rec.normalized_betbck_home = rec.normalized_pinnacle_away
                            /\ rec.normalized_betbck_away = rec.normalized_pinnacle_home
        IN  /\ (home_to_away /\ ~home_to_home) => rec.orientation = "flipped"
            /\ (home_to_home /\ ~home_to_away) => rec.orientation = "direct"

\* the reference events game i of the call can be paired with: of its sport,
\* passing the filters, and not taken by the record of an earlier game
Eligible(i) ==
    {e \in SeqToSet(relevant_events(pinnacle_events,
                                   GameFacts[betbck_games[i]].betbck_sport, Facts)) :
        /\ ~PairFacts[betbck_games[i], e].filtered
        /\ \A k \in Records :
               GameIndexOf(matched_events[k]) < i
                   => matched_events[k].pinnacle_event_id # e.event_id}

PairScore(g, e) == RatMax(PairFacts[g, e].score_direct, PairFacts[g, e].score_flipped)

\* game i has the id of a game that an earlier position of the same call matched
SameGameMatchedEarlier(i) ==
    \E k \in Records :
        /\ GameIndexOf(matched_events[k]) < i
        /\ betbck_game_id(matched_events[k].betbck_game) = betbck_game_id(betbck_games[i])

\* C8: a secondary game with non-empty normalized names gets a match record
\* iff the best score over its eligible candidates is >= 65; every record has
\* match_score in [65, 100] and match_confidence = match_score / 100.
AcceptanceThreshold ==
    /\ \A i \in 1..Len(betbck_games) :
           (/\ outcome.raised = Absent
            /\ GameFacts[betbck_games[i]].norm_bck_home # ""
            /\ GameFacts[betbck_games[i]].norm_bck_away # ""
            /\ ~SameGameMatchedEarlier(i))
               => (HasRecord(i) <=>
                       \E e \in Eligible(i) :
                           RatLeq(Rat(FUZZY_MATCH_THRESHOLD, 1), PairScore(betbck_games[i], e)))
    /\ \A k \in Records :
           /\ RatLeq(Rat(65, 1), matched_events[k].match_score)
           /\ RatLeq(matched_events[k].match_score, Rat(100, 1))
           /\ RatEq(matched_events[k].match_confidence,
                    Rat(matched_events[k].match_score.num,
                        100 * matched_events[k].match_score.den))

\* by how much two datetimes certainly differ: a naive one is a wall clock
\* in some time zone, at most 14 hours from UTC
CertainDifference(a, b) ==
    IF a.kind = b.kind THEN Abs(a.t - b.t) ELSE Abs(a.t - b.t) - 14 * 3600

\* C9: no match record pairs a secondary game and a reference event that both
\* carry an event_datetime whose instants differ by more than 86400 seconds.
TimeWindow ==
    \A k \in Records :
        LET game_time == matched_events[k].betbck_game.event_datetime
            event_time == EventOf(matched_events[k]).event_datetime
        IN  (game_time.kind # "none" /\ event_time.kind # "none")
                => CertainDifference(game_time, event_time) <= 86400

\* the per-name scores of a game and an event, in the better orientation
ComponentScores ==
    [g \in BetbckGames, e \in PinnacleEvents |->
        LET gh == GameFacts[g].norm_bck_home
            ga == GameFacts[g].norm_bck_away
            eh == EventFacts[e].norm_event_home
            ea == EventFacts[e].norm_event_away
            min_score == Rat(MIN_COMPONENT_MATCH_SCORE, 1)
        IN  \/ /\ RatLeq(min_score, token_set_ratio(gh, eh))
               /\ RatLeq(min_score, token_set_ratio(ga, ea))
            \/ /\ RatLeq(min_score, token_set_ratio(gh, ea))
               /\ RatLeq(min_score, token_set_ratio(ga, eh))]

\* |a - b| <= n, for rationals a and b
RatWithin(a, b, n) ==
    Abs(a.num * b.den - b.num * a.den) <= n * a.den * b.den

\* C10: of two candidates that score within 10 points of each other for a
\* game, the one whose home and away names each score >= 60 is chosen; when
\* neither or both do, or the scores are further apart, the candidate with the
\* highest combined score is chosen.
TieBreakRule ==
    \A k \in Records :
        LET g == matched_events[k].betbck_game
            chosen == EventOf(matched_events[k])
        IN  \A other \in Eligible(GameIndexOf(matched_events[k])) \ {chosen} :
                IF /\ RatWithin(PairScore(g, chosen), PairScore(g, other),
                                ORIENTATION_CONFIDENCE_MARGIN)
                   /\ ComponentScores[g, chosen] # ComponentScores[g, other]
                THEN ComponentScores[g, chosen]
                ELSE RatLeq(PairScore(g, other), PairScore(g, chosen))


(***************************************************************************)
(* Properties of the EV engine, over the arguments and the result of the   *)
(* latest call of analyze_markets_for_ev.                                  *)
(***************************************************************************)
Analyzed == DOMAIN pinnacle_data_copy # {}

Rows == 1..Len(potential_bets)

FirstHalfRow(row) == StartsWith(row.market, "1H")

\* the period a row is labelled with
PeriodOf(row) == IF FirstHalfRow(row) THEN 1 ELSE 0

\* the dictionaries the reference event has under the keys of period n
PeriodsAt(n) ==
    LET periods == GetOr(GetOr(pinnacle_data_copy, "data", <<>>), "periods", <<>>)
    IN  IF n = 0 THEN Get(periods, "num_0") \cup Get(periods, "0")
        ELSE Get(periods, "num_1") \cup Get(periods, "1")

HasPeriod(n) == \E period \in PeriodsAt(n) : DOMAIN period # {}

HasFirstHalfData == TruthyDict(Get(bet_data_copy, "1H_data"))

SpreadEntries(n) ==
    UNION {SeqToSet(GetOr(period, "spreads", <<>>)) : period \in PeriodsAt(n)}

\* the moneyline, the spread entries and the total entries of period n
MarketEntries(n) ==
    UNION {Get(period, "money_line") : period \in PeriodsAt(n)}
        \cup SpreadEntries(n)
        \cup UNION {SeqToSet(GetOr(period, "totals", <<>>)) : period \in PeriodsAt(n)}

\* what the secondary book posts for period n: the game for the full game,
\* its 1H_data for the first half
SecondaryData(n) == IF n = 0 THEN bet_data_copy ELSE GetOr(bet_data_copy, "1H_data", <<>>)

SpreadOptions(n, side) == SeqToSet(GetOr(SecondaryData(n), side \o "_spreads", <<>>))

\* the prices the secondary book posts for period n
SecondaryOdds(n) ==
    LET bet == SecondaryData(n)
        fields == {"home_moneyline_american", "away_moneyline_american",
                   "draw_moneyline_american"}
                      \cup (IF n = 0 THEN {"game_total_over_odds", "game_total_under_odds"}
                            ELSE {})
        options == SpreadOptions(n, "home") \cup SpreadOptions(n, "away")
                       \cup (IF n = 0 THEN {}
                             ELSE SeqToSet(GetOr(bet, "home_totals", <<>>))
                                      \cup SeqToSet(GetOr(bet, "away_totals", <<>>)))
    IN  UNION {Get(bet, field) : field \in fields}
            \cup UNION {Get(option, "odds") : option \in options}

Sides == {"home", "away", "draw", "over", "under"}

SelectionOf(side) ==
    CASE side = "home" -> "Home" [] side = "away" -> "Away" [] side = "draw" -> "Draw"
      [] side = "over" -> "Over" [] side = "under" -> "Under"

\* the row shows the fair American price of the side of the entry, and its EV
\* is that of the price odds against the fair decimal price of that side
FairlyPriced(row, entry, side, odds) ==
    /\ TruthyStr(Get(entry, "nvp_american_" \o side))
    /\ TruthyNum(Get(entry, "nvp_" \o side))
    /\ row.selection = SelectionOf(side)
    /\ row.pinnacle_nvp = entry["nvp_american_" \o side]
    /\ row.betbck_odds = odds
    /\ row.ev = EvStr(calculate_ev(american_to_decimal(Some(odds)),
                                   Some(Milli(entry["nvp_" \o side]))))

WithoutFirstHalf(game) == [k \in DOMAIN game \ {"1H_data"} |-> game[k]]

\* C3: a row whose market has the '1H' prefix is computed from a price of
\* the secondary game's 1H_data and a fair price of reference period 1, a
\* row without the prefix from a price of the full-game fields and a fair
\* price of reference period 0; and a secondary game with first-half data,
\* analysed against a reference event that has period 0 only, gets the rows
\* of its full-game fields and no 1H row.
NoCrossPeriodMixing ==
    /\ \A i \in Rows :
           \E entry \in MarketEntries(PeriodOf(potential_bets[i])), side \in Sides,
              odds \in SecondaryOdds(PeriodOf(potential_bets[i])) :
               FairlyPriced(potential_bets[i], entry, side, odds)
    /\ (Analyzed /\ HasFirstHalfData /\ HasPeriod(0) /\ ~HasPeriod(1)) =>
           /\ \A i \in Rows : ~FirstHalfRow(potential_bets[i])
           /\ potential_bets = analyze_markets_for_ev(WithoutFirstHalf(bet_data_copy),
                                                      pinnacle_data_copy).potential_bets

\* both periods on both sides: rows of the first half and of the full game
NoCrossPeriodMixingWitness ==
    /\ Analyzed /\ HasFirstHalfData /\ HasPeriod(0) /\ HasPeriod(1)
    /\ \E i, j \in Rows : FirstHalfRow(potential_bets[i]) /\ ~FirstHalfRow(potential_bets[j])

\* float(option['line']) of a secondary option, None when it has no line or
\* float raises
OptionLine(option) == IF "line" \in DOMAIN option THEN Float(option.line) ELSE None

\* the line a spread row is paired on: the reference hdp for the home side,
\* its negation for the away side
PairedLine(side, hdp) == IF side = "home" THEN hdp ELSE -hdp

\* the row is that of the pairing of option with entry
SpreadRowOf(row, entry, option, side) ==
    /\ "hdp" \in DOMAIN entry
    /\ OptionLine(option) # None
    /\ IsClose(PairedLine(side, entry.hdp), The(OptionLine(option)))
    /\ ParseFloat(row.line) = Some(PairedLine(side, entry.hdp))
    /\ TruthyStr(Get(entry, "nvp_american_" \o side))
    /\ row.pinnacle_nvp = entry["nvp_american_" \o side]
    /\ row.betbck_odds = option.odds

SpreadSide(row) == IF row.selection = "Home" THEN "home" ELSE "away"

\* C4: every Spread or 1H Spread row is for Home or Away and has a reference
\* spread entry of its period and a secondary option of its side such that
\* hdp is within 0.01 of the home line (Home) or of the negated away line
\* (Away), the row's line is hdp (Home) or -hdp (Away), and the entry has
\* the nvp_american_<side> the row shows.
SpreadLineSymmetry ==
    \A i \in Rows :
        potential_bets[i].market \in {"Spread", "1H Spread"} =>
            /\ potential_bets[i].selection \in {"Home", "Away"}
            /\ \E entry \in SpreadEntries(PeriodOf(potential_bets[i])),
                  option \in SpreadOptions(PeriodOf(potential_bets[i]),
                                           SpreadSide(potential_bets[i])) :
                   SpreadRowOf(potential_bets[i], entry, option,
                               SpreadSide(potential_bets[i]))

\* an Away row of the full game, a row of the first half, and a home option
\* on the line of an entry that has no nvp_american_home
SpreadLineSymmetryWitness ==
    /\ \E i \in Rows : /\ potential_bets[i].market = "Spread"
                       /\ potential_bets[i].selection = "Away"
    /\ \E i \in Rows : potential_bets[i].market = "1H Spread"
    /\ \E entry \in SpreadEntries(0), option \in SpreadOptions(0, "home") :
           /\ "hdp" \in DOMAIN entry
           /\ OptionLine(option) = Some(entry.hdp)
           /\ "nvp_american_home" \notin DOMAIN entry

\* the event has a fair price somewhere
Enriched ==
    \E entry \in MarketEntries(0) \cup MarketEntries(1), side \in Sides :
        \/ "nvp_" \o side \in DOMAIN entry
        \/ "nvp_american_" \o side \in DOMAIN entry

\* C5: the EV of every row is that of its secondary price against the fair
\* price nvp_<side> of a reference entry, the one whose nvp_american_<side>
\* the row shows; and an event without any nvp_* field gets no rows.
NoVigBeforeEv ==
    /\ \A i \in Rows :
           \E entry \in MarketEntries(0) \cup MarketEntries(1), side \in Sides :
               FairlyPriced(potential_bets[i], entry, side, potential_bets[i].betbck_odds)
    /\ (Analyzed /\ ~Enriched) => potential_bets = <<>>

\* a row of an entry whose fair price differs from its raw price
NoVigBeforeEvWitness ==
    \E i \in Rows, entry \in MarketEntries(0) \cup MarketEntries(1), side \in Sides :
        /\ FairlyPriced(potential_bets[i], entry, side, potential_bets[i].betbck_odds)
        /\ side \in DOMAIN entry
        /\ entry[side] # entry["nvp_" \o side]

ValidationFailed == "Period separation validation failed - aborting EV calculation"

Aborted == Analyzed /\ log = ValidationFailed

\* the rows of the first-half pairings of the analysed game against period 1
FirstHalfPairings ==
    {_analyze_1h_markets_for_ev(SecondaryData(1), period,
                                GetOr(pinnacle_data_copy, "data", <<>>)) :
         period \in PeriodsAt(1)}

\* C7 as claimed: the guard aborts only when the game has first-half data and
\* the event has neither period, and with first-half data and period 1 but
\* no period 0 the rows of the first-half pairings are emitted.
AbortsOnlyWithoutBothPeriods ==
    Analyzed =>
        /\ Aborted => (HasFirstHalfData /\ ~HasPeriod(0) /\ ~HasPeriod(1))
        /\ (HasFirstHalfData /\ HasPeriod(1) /\ ~HasPeriod(0)) =>
               potential_bets \in FirstHalfPairings

\* C7: the guard aborts, and no row is emitted, exactly when the event has
\* no period 0 and either the game has first-half data or the event has
\* period 1; with first-half data and period 1 but no period 0 no row is
\* emitted.
AbortsWithoutFullGame ==
    Analyzed =>
        /\ Aborted <=> (~HasPeriod(0) /\ (HasFirstHalfData \/ HasPeriod(1)))
        /\ Aborted => potential_bets = <<>>
        /\ (HasFirstHalfData /\ HasPeriod(1) /\ ~HasPeriod(0)) =>
               Aborted /\ potential_bets = <<>>

\* first-half data and period 1 without period 0: the call is aborted though
\* the first-half pairings have rows
AbortsWithoutFullGameWitness ==
    /\ Aborted
    /\ HasFirstHalfData /\ HasPeriod(1) /\ ~HasPeriod(0)
    /\ <<>> \notin FirstHalfPairings

(***************************************************************************)
(* The keys of the periods map.  A key is a str in the model; the int key  *)
(* n of a Python dict, which no str key equals, is the str IntKey(n).      *)
(***************************************************************************)
IntKey(n) == "<int " \o NatStr(n) \o ">"

KeyConventions == {"num", "str", "int"}

\* the key of period n under a convention: 'num_0', '0' or 0
PeriodKey(convention, n) ==
    CASE convention = "num" -> "num_" \o NatStr(n)
      [] convention = "str" -> NatStr(n)
      [] convention = "int" -> IntKey(n)

\* the period a key stands for
PeriodOfKey(key) == CHOOSE n \in 0..1 : key \in {PeriodKey(c, n) : c \in KeyConventions}

\* the event with its periods keyed under the convention
Rekeyed(event, convention) ==
    LET periods == event.data.periods
        indexes == {PeriodOfKey(key) : key \in DOMAIN periods}
        KeyOf(n) == CHOOSE key \in DOMAIN periods : PeriodOfKey(key) = n
        rekeyed == [key \in {PeriodKey(convention, n) : n \in indexes} |->
                        periods[KeyOf(PeriodOfKey(key))]]
    IN  [event EXCEPT !.data.periods = rekeyed]

\* the analysed event keyed under any of the conventions gets the rows the
\* call returned, and is enriched as the analysed event is
SameRowsUnder(conventions) ==
    Analyzed =>
        \A c \in conventions :
            /\ analyze_markets_for_ev(bet_data_copy,
                                      Rekeyed(pinnacle_data_copy, c)).potential_bets
                   = potential_bets
            /\ process_event_odds_for_display(Rekeyed(pinnacle_data_copy, c))
                   = Rekeyed(process_event_odds_for_display(pinnacle_data_copy), c)

\* C11 as claimed: the rows are the same whether the periods are keyed by the
\* integers 0 and 1 or by the strings 'num_0' and 'num_1'.
IntegerOrNumKeys == SameRowsUnder({"int", "num"})

\* C11: the rows are the same whether the periods are keyed by the strings
\* '0' and '1' or by the strings 'num_0' and 'num_1', and so is the
\* enrichment; keyed by the integers 0 and 1 the event gets no rows.
StringOrNumKeys ==
    /\ SameRowsUnder({"str", "num"})
    /\ Analyzed =>
           analyze_markets_for_ev(bet_data_copy,
                                  Rekeyed(pinnacle_data_copy, "int")).potential_bets = <<>>

\* an event keyed by '0' and '1' that got rows of both periods
StringOrNumKeysWitness ==
    /\ Analyzed
    /\ DOMAIN pinnacle_data_copy.data.periods = {"0", "1"}
    /\ \E i, j \in Rows : FirstHalfRow(potential_bets[i]) /\ ~FirstHalfRow(potential_bets[j])

(***************************************************************************)
(* Properties of the odds arithmetic.                                      *)
(***************************************************************************)
\* the signed integer a str denotes: an optional sign and digits
AmericanValue(s) ==
    IF StartsWith(s, "-") THEN -DigitsVal(Unsigned(s)) ELSE DigitsVal(Unsigned(s))

IsAmerican(s) == s # "" /\ Unsigned(s) # "" /\ AllDigits(Unsigned(s))

\* the argument is an integer price and the round trip is done
RoundTripDone ==
    /\ "american_odds_str" \in DOMAIN arguments
    /\ IsAmerican(arguments.american_odds_str)
    /\ Len(returned) = 2

\* the price a of the argument
american_odds == AmericanValue(arguments.american_odds_str)

InRange(a) == 100 <= Abs(a) /\ Abs(a) <= 100000

\* the round trip returned the price b
RoundTripGives(b) ==
    /\ returned[2] # None
    /\ IsAmerican(The(returned[2]))
    /\ AmericanValue(The(returned[2])) = b

\* C12 as claimed: the round trip of every integer price a with
\* 100 <= |a| <= 100000, -100 included, is a.
OddsRoundTrip ==
    (RoundTripDone /\ InRange(american_odds)) => RoundTripGives(american_odds)

\* C12: the round trip of every integer price a with 100 <= |a| <= 100000
\* is a, but for -100: its decimal price is the 2.0 of +100 and its round
\* trip is +100.
OddsRoundTripButMinus100 ==
    (RoundTripDone /\ InRange(american_odds)) =>
        IF american_odds = -100 THEN returned[2] = Some("+100")
        ELSE RoundTripGives(american_odds)

\* the round trip of the lowest price of the range
OddsRoundTripButMinus100Witness ==
    /\ RoundTripDone
    /\ american_odds = -100000
    /\ returned[2] = Some("-100000")

(***************************************************************************)
(* Properties of the name normalizer.                                      *)
(***************************************************************************)
\* C13: normalizing what the normalizer returned returns it unchanged.
NormalizerIdempotence ==
    ("name" \in DOMAIN arguments /\ Len(returned) = 2) => returned[2] = returned[1]

\* C14: every alias of the table is normalized to what its canonical name is
\* normalized to.
AliasClosure ==
    \A canonical \in DOMAIN TEAM_ALIASES :
        \A alias \in TEAM_ALIASES[canonical] :
            ("name" \in DOMAIN arguments /\ arguments.name = alias /\ Len(returned) >= 1) =>
                returned[1] = normalize_team_name_for_matching(canonical)

(***************************************************************************)
(* Properties of the no-vig computation.  odds_list and the list returned  *)
(* hold prices in thousandths; an implied probability 1/price is taken in  *)
(* millionths, rounded down and rounded up, so that the sums below bound   *)
(* the sum of the implied probabilities from both sides.                   *)
(***************************************************************************)
NvpReturned == "odds_list" \in DOMAIN arguments /\ Len(returned) = 1

\* the indices of the odds that are numbers above 1.0001
ValidIndices(odds_list) ==
    {i \in 1..Len(odds_list) : odds_list[i] # None /\ The(odds_list[i]) >= 1001}

ImpliedDown(price) == 1000000000 \div price

ImpliedUp(price) == (1000000000 + price - 1) \div price

RECURSIVE SumDown(_, _)
SumDown(prices, indices) ==
    IF indices = {} THEN 0
    ELSE LET i == CHOOSE i \in indices : TRUE
         IN  ImpliedDown(The(prices[i])) + SumDown(prices, indices \ {i})

RECURSIVE SumUp(_, _)
SumUp(prices, indices) ==
    IF indices = {} THEN 0
    ELSE LET i == CHOOSE i \in indices : TRUE
         IN  ImpliedUp(The(prices[i])) + SumUp(prices, indices \ {i})

\* the implied probabilities of the valid odds sum to at most 1.0001
WithinMargin(odds_list) == SumUp(odds_list, ValidIndices(odds_list)) <= 1000100

\* the implied probabilities of the valid odds sum to more than 1.0001
AboveMargin(odds_list) == SumDown(odds_list, ValidIndices(odds_list)) > 1000100

\* the valid odds, in the order of the list
RECURSIVE ValidOdds(_)
ValidOdds(odds_list) ==
    IF odds_list = <<>> THEN <<>>
    ELSE (IF 1 \in ValidIndices(odds_list) THEN <<The(odds_list[1])>> ELSE <<>>)
             \o ValidOdds(Tail(odds_list))

FewerThanTwoValid(odds_list) == Cardinality(ValidIndices(odds_list)) < 2

EvReturned == "bet_decimal" \in DOMAIN arguments /\ Len(returned) = 1

Positive(price) == price # None /\ The(price).num > 0

\* C17: calculate_ev returns bet_decimal / fair_decimal - 1 when both prices
\* are positive, and when either price is missing or non-positive it returns
\* something other than the number zero, the EV of two equal prices.
EvAbsentWithoutPrices ==
    EvReturned =>
        IF Positive(arguments.bet_decimal) /\ Positive(arguments.true_decimal)
        THEN LET bet == The(arguments.bet_decimal)
                 fair == The(arguments.true_decimal)
             IN  returned[1].num * fair.num * bet.den
                     = (bet.num * fair.den - fair.num * bet.den) * returned[1].den
        ELSE returned[1].num # 0

(***************************************************************************)
(* Properties of the full-game totals.                                     *)
(***************************************************************************)
TotalRows(side) ==
    {k \in Rows : /\ potential_bets[k].market = "Total"
                  /\ potential_bets[k].selection = SelectionOf(side)}

TotalOdds(side) == Get(bet_data_copy, "game_total_" \o side \o "_odds")

\* the reference total entries of the full game that match the total of the
\* game for the side: a line within 0.01 of the game's, a fair price for the
\* side, and a price of the game that parses
MatchingTotals(side) ==
    LET line == normalize_total_line(Get(bet_data_copy, "game_total_line"))
    IN  {entry \in UNION {SeqToSet(GetOr(period, "totals", <<>>)) : period \in PeriodsAt(0)} :
            /\ line # None
            /\ "points" \in DOMAIN entry
            /\ IsClose(The(line), entry.points)
            /\ american_to_decimal(TotalOdds(side)) # None
            /\ TruthyStr(Get(entry, "nvp_american_" \o side))
            /\ TruthyNum(Get(entry, "nvp_" \o side))}

TotalEv(entry, side) ==
    calculate_ev(american_to_decimal(TotalOdds(side)), Some(Milli(entry["nvp_" \o side])))

\* C18: for the full-game totals, at most one Total / Over row and one
\* Total / Under row are emitted per game; the row of a side is there when
\* some reference entry matches, and carries the highest EV among the
\* matching reference entries.
BestTotalOnly ==
    Analyzed =>
        \A side \in {"over", "under"} :
            /\ Cardinality(TotalRows(side)) <= 1
            /\ MatchingTotals(side) # {} => TotalRows(side) # {}
            /\ \A k \in TotalRows(side) :
                   \E entry \in MatchingTotals(side) :
                       /\ FairlyPriced(potential_bets[k], entry, side, The(TotalOdds(side)))
                       /\ potential_bets[k].line = FloatStr(entry.points)
                       /\ \A other \in MatchingTotals(side) :
                              RatLeq(TotalEv(other, side), TotalEv(entry, side))

\* two reference entries match the total of the game; the first has the
\* higher EV on the over and the second on the under
BestTotalOnlyWitness ==
    /\ Analyzed
    /\ Cardinality(MatchingTotals("over")) = 2
    /\ Cardinality(MatchingTotals("under")) = 2
    /\ \E k \in TotalRows("over"), j \in TotalRows("under") :
           /\ potential_bets[k].line = "8.5"
           /\ potential_bets[j].line = "8.505"
    /\ pinnacle_data_copy.data.periods["num_0"].totals[1].points = 8500

(***************************************************************************)
(* Properties of the moneyline pairings.                                   *)
(***************************************************************************)
MoneylineRows(n, side) ==
    {k \in Rows : /\ potential_bets[k].market = (IF n = 1 THEN "1H Moneyline" ELSE "Moneyline")
                  /\ potential_bets[k].selection = SelectionOf(side)}

\* the secondary book posts a price that parses for the side in period n, and
\* the reference moneyline of period n has a fair American price for it
MoneylinePaired(n, side) ==
    /\ american_to_decimal(Get(SecondaryData(n), side \o "_moneyline_american")) # None
    /\ \E period \in PeriodsAt(n) :
           \E ml \in Get(period, "money_line") :
               TruthyStr(Get(ml, "nvp_american_" \o side))

\* period n is analyzed: the event has the full game and, for the first
\* half, the event and the game both have the first half
PeriodAnalyzed(n) == HasPeriod(0) /\ (n = 1 => HasPeriod(1) /\ HasFirstHalfData)

MoneylinePairedIn(sides) ==
    Analyzed =>
        \A n \in 0..1, side \in sides :
            PeriodAnalyzed(n) => (MoneylineRows(n, side) # {} <=> MoneylinePaired(n, side))

\* C19: in every analyzed period, a Moneyline row is emitted for Home, Away
\* and Draw iff the secondary price of the side and the reference
\* nvp_american of the side are both there and valid; so a first-half Draw
\* price with a period-1 nvp_american_draw gives a '1H Moneyline' Draw row.
MoneylinePairings == MoneylinePairedIn({"home", "away", "draw"})

(***************************************************************************)
(* Properties of the isolation of errors.                                  *)
(***************************************************************************)
\* the period without the spreads and totals that are None
WithoutNullEntries(period) ==
    [k \in DOMAIN period |->
        IF k \in {"spreads", "totals"} THEN SelectSeq(period[k], IsDict) ELSE period[k]]

\* the event without the spreads and totals that are None
WithoutNull(event) ==
    LET periods == GetOr(GetOr(event, "data", <<>>), "periods", <<>>)
    IN  IF DOMAIN periods = {} THEN event
        ELSE Put(event, "data",
                 Some(Put(event.data, "periods",
                          Some([k \in DOMAIN periods |-> WithoutNullEntries(periods[k])]))))

Parses(option) == american_to_decimal(Get(option, "odds")) # None

\* the markets of a game or of its first half without the prices that do
\* not parse
WithoutInvalidOdds(markets) ==
    LET odds == {"home_moneyline_american", "away_moneyline_american",
                 "draw_moneyline_american", "game_total_over_odds", "game_total_under_odds"}
        options == {"home_spreads", "away_spreads", "home_totals", "away_totals"}
        kept == {k \in DOMAIN markets :
                    k \in odds => american_to_decimal(Some(markets[k])) # None}
    IN  [k \in kept |-> IF k \in options THEN SelectSeq(markets[k], Parses) ELSE markets[k]]

\* the game without the prices that do not parse
WithoutInvalid(game) ==
    LET full == WithoutInvalidOdds([k \in DOMAIN game \ {"1H_data"} |-> game[k]])
    IN  IF "1H_data" \in DOMAIN game
        THEN WithFirstHalf(full, WithoutInvalidOdds(game["1H_data"]))
        ELSE full

\* C20: a price that does not parse, a line without counterpart, or a
\* reference spread or total that is None makes only that selection or entry
\* be skipped: the rows are those of the game without its invalid prices
\* against the event without its None entries.
ErrorIsolation ==
    Analyzed =>
        potential_bets
            = analyze_markets_for_ev(WithoutInvalid(bet_data_copy),
                                     WithoutNull(pinnacle_data_copy)).potential_bets

(***************************************************************************)
(* Properties of the matcher: what a call records for its games.           *)
(***************************************************************************)
\* no game of the call has an eligible candidate that reaches the threshold
NoGameReachesThreshold ==
    \A i \in 1..Len(betbck_games) :
        \A e \in Eligible(i) :
            RatLess(PairScore(betbck_games[i], e), Rat(FUZZY_MATCH_THRESHOLD, 1))

\* C21: a call with an empty list of secondary games, and a call in which no
\* game reaches the threshold, return an empty list of match records without
\* raising.
NothingToMatch ==
    (betbck_games = <<>> \/ NoGameReachesThreshold)
        => outcome.raised = Absent /\ matched_events = <<>>


(***************************************************************************)
(* Properties of the scraper.                                              *)
(***************************************************************************)
\* the rules a normalization made by a function is to use
RulesOf(n) ==
    IF n.function = "extract_all_spread_options_from_text" THEN "Spread" ELSE "Total"

\* C22: whatever the threads did before and do meanwhile, a line normalized
\* inside extract_all_spread_options_from_text is normalized by the Spread
\* rules, and one normalized inside extract_all_total_options_from_text or
\* extract_line_value_from_text(.., 'Total') by the Total rules.
ContextPerCall ==
    \A t \in Threads :
        \A n \in normalized[t] :
            n.line = normalize_asian_handicap(n.raw_line, RulesOf(n))

\* a thread normalizes a line the two rules write differently while the other
\* thread is in an extractor of the other market type
ContextPerCallWitness ==
    \E t, u \in Threads :
        /\ t # u
        /\ frames[t].pc = "entered" /\ frames[u].pc = "entered"
        /\ frames[u].done > 0
        /\ MarketTypeOf(frames[t].function) # MarketTypeOf(frames[u].function)
        /\ \E n \in normalized[t] :
               /\ n.function = frames[t].function
               /\ frames[t].done > 0
               /\ normalize_asian_handicap(n.raw_line, "Spread")
                      # normalize_asian_handicap(n.raw_line, "Total")
        /\ \E n \in normalized[u] : n.function = frames[u].function

\* C30: an extractor that sets the context has put back, when it returns,
\* the context its caller had.
ContextRestored ==
    \A t \in Threads :
        frames[t].pc = "returned"
            => get_market_type_context(market_type_context, t) = The(frames[t].caller_context)

\* C23: process_event_odds_for_display and analyze_markets_for_ev leave the
\* event and the game they are given as they were: no call changes a field
\* or a value of its arguments.
ArgumentsKept == [][pinnacle_data' = pinnacle_data /\ bet_data' = bet_data]_vars

unmatched_betbck == outcome.unmatched_betbck

\* the game has a match record
Matched(g) == \E k \in Records : matched_events[k].betbck_game = g

\* the game has a diagnostic, with one of the three reasons
Diagnosed(g) ==
    \E k \in 1..Len(unmatched_betbck) :
        /\ unmatched_betbck[k].betbck_home = g.betbck_site_home_team
        /\ unmatched_betbck[k].betbck_away = g.betbck_site_away_team
        /\ unmatched_betbck[k].reason
               \in {"normalization_failed", "below_threshold", "no_candidates"}

\* C24: a run that returns has given every game of its input one outcome, a
\* match record or a diagnostic with its reason, so that the records and the
\* diagnostics together are as many as the games.
OneOutcomePerGame ==
    outcome.raised = Absent
        => /\ \A i \in 1..Len(betbck_games) : Matched(betbck_games[i]) \/ Diagnosed(betbck_games[i])
           /\ Len(matched_events) + Len(unmatched_betbck) = Len(betbck_games)

ScrapeSteps == <<"login", "prerequisites", "search", "parse", "first_half">>

\* the steps made after the login, the page with the form and the search
Made(n) == scrape.steps = SubSeq(ScrapeSteps, 1, n)

\* what the site answered makes the login fail
LoginFailed ==
    /\ scrape.login_response # None
    /\ LET r == The(scrape.login_response)
       IN  \/ r = None
           \/ The(r).url \notin {"StraightLoginSportSelection.php", "MainMenu.php"}
           \/ ~The(r).logout
           \/ The(r).invalid_user

\* the page with the search form came without a wager number
WagerUnavailable ==
    /\ scrape.prerequisite_page # None
    /\ LET page == The(scrape.prerequisite_page)
       IN  page = None \/ The(page).inetWagerNumber \in {None, Some("")}

\* the search was made and brought no page
NoSearchHtml ==
    /\ Len(scrape.steps) >= 3
    /\ scrape.search_results_html \in {None} \cup {Some(p) : p \in {q \in SearchPages : q.text = ""}}

\* C25: scrape_betbck_for_game logs in, fetches the search form, searches,
\* parses and extracts the first half, in this order; it returns None at the
\* step where the login fails, the wager number is missing or the search
\* brings no page, having made no later step; and what it returns carries
\* '1H_data' and 'betbck_payload' only where the target game was parsed.
ScrapeInOrder ==
    /\ \E n \in 0..Len(ScrapeSteps) : Made(n)
    /\ LoginFailed => scrape.pc = "returned" /\ scrape.result = None /\ Made(1)
    /\ WagerUnavailable => scrape.pc = "returned" /\ scrape.result = None /\ Made(2)
    /\ NoSearchHtml => scrape.pc = "returned" /\ scrape.result = None /\ Made(3)
    /\ scrape.result # None
           => /\ scrape.parsed_game_data # None
              /\ parse_specific_game_from_search_html(The(scrape.search_results_html),
                                                      scrape.pod_home_team) # None
              /\ {"1H_data", "betbck_payload"} \subseteq DOMAIN The(scrape.result)
              /\ Made(5)
    /\ (scrape.pc = "returned" /\ scrape.result = None)
           => scrape.parsed_game_data = None /\ ~Made(5)

\* a scrape that stopped at the login
ScrapeInOrderWitness ==
    /\ scrape.pc = "returned"
    /\ LoginFailed
    /\ scrape.steps = <<"login">>

(***************************************************************************)
(* Properties of the first-half totals.                                    *)
(***************************************************************************)
\* the options of the first half the secondary book posts for a side of the
\* total: home_totals for Over, away_totals for Under
FirstHalfTotalOptions(side) ==
    SeqToSet(GetOr(SecondaryData(1), IF side = "over" THEN "home_totals" ELSE "away_totals",
                   <<>>))

FirstHalfTotalEntries ==
    UNION {SeqToSet(GetOr(period, "totals", <<>>)) : period \in PeriodsAt(1)}

\* the option and the reference entry pair for the side: the line of the
\* option, a number or the string the scraper writes, is within 0.01 of the
\* points of the entry, and the prices of the two are there
FirstHalfTotalPairs(total, entry, side) ==
    /\ Get(total, "line") # None
    /\ Float(total.line) # None
    /\ "points" \in DOMAIN entry
    /\ IsClose(The(Float(total.line)), entry.points)
    /\ TruthyStr(Get(entry, "nvp_american_" \o side))
    /\ Priced(american_to_decimal(Get(total, "odds")), true_odds(entry, side))

FirstHalfTotalRow(total, side) ==
    \E k \in Rows :
        /\ potential_bets[k].market = "1H Total"
        /\ potential_bets[k].selection = SelectionOf(side)
        /\ potential_bets[k].betbck_odds = total.odds

\* C26: in the first half, an option of home_totals whose line is within 0.01
\* of the points of a reference total with a fair Over price gives a
\* '1H Total' Over row, and an option of away_totals an Under row, whether
\* the line of the option is a number or the string the scraper writes.
FirstHalfTotalsPaired ==
    (Analyzed /\ PeriodAnalyzed(1) /\ log = "")
        => \A side \in {"over", "under"} :
               \A total \in FirstHalfTotalOptions(side), entry \in FirstHalfTotalEntries :
                   FirstHalfTotalPairs(total, entry, side) => FirstHalfTotalRow(total, side)

\* the same for the lines that are numbers
FirstHalfNumbersPaired ==
    (Analyzed /\ PeriodAnalyzed(1) /\ log = "")
        => \A side \in {"over", "under"} :
               \A total \in FirstHalfTotalOptions(side), entry \in FirstHalfTotalEntries :
                   (FirstHalfTotalPairs(total, entry, side) /\ IsNumber(total.line))
                       => FirstHalfTotalRow(total, side)

FirstHalfNumbersReached ==
    /\ Analyzed /\ PeriodAnalyzed(1) /\ log = ""
    /\ \E total \in FirstHalfTotalOptions("over"), entry \in FirstHalfTotalEntries :
           FirstHalfTotalPairs(total, entry, "over") /\ IsNumber(total.line)

(***************************************************************************)
(* Properties of the spread rows.                                          *)
(***************************************************************************)
SpreadMarket(n) == IF n = 0 THEN "Spread" ELSE "1H Spread"

\* the spread options the secondary book posts for period n and a side, and
\* the spread entries the reference event quotes for the period, in order
SpreadOptionList(n, side) == GetOr(SecondaryData(n), side \o "_spreads", <<>>)

SpreadEntryList(n) ==
    LET periods == GetOr(GetOr(pinnacle_data_copy, "data", <<>>), "periods", <<>>)
        period == IF n = 0 THEN full_game_period(periods) ELSE first_half_period(periods)
    IN  IF period = None THEN <<>> ELSE GetOr(The(period), "spreads", <<>>)

\* the option and the entry pair for the side: the line of the option is
\* within 0.01 of hdp (home) or of -hdp (away) and the prices are there
SpreadPairs(option, entry, side) ==
    /\ Get(option, "line") # None
    /\ Float(option.line) # None
    /\ "hdp" \in DOMAIN entry
    /\ Abs(The(Float(option.line)) - (IF side = "home" THEN entry.hdp ELSE -entry.hdp)) <= 10
    /\ TruthyStr(Get(entry, "nvp_american_" \o side))
    /\ Priced(american_to_decimal(Get(option, "odds")), true_odds(entry, side))

\* the entries of period n, by position, that pair with the i-th option
PairingEntries(n, side, i) ==
    {j \in 1..Len(SpreadEntryList(n)) :
        SpreadPairs(SpreadOptionList(n, side)[i], SpreadEntryList(n)[j], side)}

\* the rows of period n that show the price of the option for the side
RowsOfOption(n, side, option) ==
    {k \in Rows : /\ potential_bets[k].market = SpreadMarket(n)
                  /\ potential_bets[k].selection = SelectionOf(side)
                  /\ potential_bets[k].betbck_odds = option.odds}

NoNullEntry == \A n \in 0..1 : \A entry \in MarketEntries(n) : IsDict(entry)

TotalLineReturned == "line" \in DOMAIN arguments /\ returned # <<>>

\* the line is the split line of a and b written with the separator
SplitLine(a, sep, b) == arguments.line = Some(StrLine(a \o sep \o b))

\* the line is split with one of the separators: its two values are averaged
AveragedWith(separators) ==
    \A a \in LineValues, b \in LineValues, sep \in separators :
        SplitLine(a, sep, b)
            => returned[1] = Some((The(ParseFloat(a)) + The(ParseFloat(b))) \div 2)

\* C28: normalize_total_line gives the average of the two values of a split
\* line, whether they are separated by ',' or by '/', and the value of a
\* single line; it gives None only for what is no line.
SplitLinesAveraged ==
    TotalLineReturned =>
        /\ AveragedWith(Separators)
        /\ \A a \in LineValues : arguments.line = Some(StrLine(a)) => returned[1] = ParseFloat(a)
        /\ returned[1] = None
               => arguments.line \in {None, Some(StrLine("")), Some(StrLine("x")),
                                      Some(StrLine("o2.5")), Some(StrLine("2.5/x"))}

\* the same for the lines written with '/'
SlashLinesAveraged == TotalLineReturned => AveragedWith({"/"})

(***************************************************************************)
(* Properties of the orientation of a match record.                        *)
(***************************************************************************)
\* the moneyline of the top team of the game is stored as the price of the
\* reference home team
TopIsHome(rec) ==
    /\ rec.normalized_betbck_home = rec.normalized_pinnacle_home
    /\ rec.normalized_betbck_away = rec.normalized_pinnacle_away

\* the moneyline of the bottom team is stored as the price of the reference
\* home team
BottomIsHome(rec) ==
    /\ ~TopIsHome(rec)
    /\ rec.normalized_betbck_home = rec.normalized_pinnacle_away
    /\ rec.normalized_betbck_away = rec.normalized_pinnacle_home

\* C29: a match record whose betbck_home_odds and betbck_away_odds are set
\* says 'direct' where the top team's moneyline is the price of the
\* reference home team and 'flipped' where the bottom team's is.
OrientationAgreesWithOdds ==
    \A k \in Records :
        (matched_events[k].betbck_home_odds # Absent
             \/ matched_events[k].betbck_away_odds # Absent)
            => /\ TopIsHome(matched_events[k]) => matched_events[k].orientation = "direct"
               /\ BottomIsHome(matched_events[k]) => matched_events[k].orientation = "flipped"
====
